---- MODULE Spec2Model ----
(***************************************************************************)
(* Model of the reconciliation engine of OrderGuard (src/app.py):          *)
(* compare_with_price_book builds an index of the price book's PriceItem   *)
(* rows, derives an ordered candidate list from every extracted PO line,   *)
(* runs the matching cascade (exact, BW prefix, B prefix, dash removal)    *)
(* and classifies the line by price comparison.                            *)
(*                                                                         *)
(* Representation.  A Python str is a tuple of one-character strings       *)
(* (<<"B","W","A","1">> is "BWA1"); a Python int found where a str is      *)
(* expected (json.loads yields ints for JSON numbers) is the tuple         *)
(* NumModel.  An optional value (None, or a dict key that is not set) is   *)
(* the empty tuple and a present value v the tuple <<v>>.  A price or a    *)
(* quantity as extracted is a record [k, n]: k = "num" a number n,         *)
(* k = "str" a string float() parses to n, k = "bad" a string float()      *)
(* rejects, k = "null" None, k = "issue" the literal "Extraction Issue".   *)
(* Prices are whole numbers of a currency unit.                            *)
(***************************************************************************)
EXTENDS Integers, Sequences, FiniteSets, TLC

\* ------------------------------------------------------------------ bounds

\* Largest number of PriceItem rows of a price book.
MaxItems == 2
\* Largest number of lines of an extracted purchase order.
MaxLines == 2
\* Largest price (price book and PO) and largest quantity.
MaxPrice == 2
MaxQty == 2

\* ----------------------------------------------------------------- strings

Upper == {"A", "B", "W"}
Lower == {"b", "w"}
Digits == {"1"}
Alnum == Upper \cup Lower \cup Digits

\* [A-Za-z0-9]
IsAlnum(c) == c \in Alnum
\* [-A-Za-z0-9_]
IsModelChar(c) == c \in Alnum \cup {"-", "_"}
\* [-A-Z0-9] under re.IGNORECASE
IsDashAlnum(c) == c \in Alnum \cup {"-"}
\* str.upper() of one character, for literals matched under re.IGNORECASE
ToUpper(c) == IF c = "b" THEN "B" ELSE IF c = "w" THEN "W" ELSE c

\* A JSON number in the "model" field: a Python int, not a str.
NumModel == <<"12345">>
IsStr(m) == m # NumModel

\* str.startswith
StartsWith(s, p) == Len(s) >= Len(p) /\ SubSeq(s, 1, Len(p)) = p
\* s[n:]
DropPrefix(s, n) == SubSeq(s, n + 1, Len(s))
\* s.replace("-", "")
RemoveDashes(s) == SelectSeq(s, LAMBDA c : c # "-")
\* p in s, for two strs
IsSubstring(p, s) ==
    \E i \in 0..(Len(s) - Len(p)) : SubSeq(s, i + 1, i + Len(p)) = p

SetMax(S) == CHOOSE x \in S : \A y \in S : y <= x
SetMin(S) == CHOOSE x \in S : \A y \in S : x <= y

\* Where a match of BW[A-Za-z0-9][-A-Za-z0-9_]{4,}[A-Za-z0-9] that starts at
\* position i of s can end.
ModelPatternEndsBW(s, i) ==
    { j \in (i + 7)..Len(s) :
        /\ s[i] = "B" /\ s[i + 1] = "W" /\ IsAlnum(s[i + 2])
        /\ \A t \in (i + 3)..(j - 1) : IsModelChar(s[t])
        /\ IsAlnum(s[j]) }

\* Where a match of [A-Za-z0-9][-A-Za-z0-9_]{4,}[A-Za-z0-9] that starts at
\* position i of s can end.
ModelPatternEndsPlain(s, i) ==
    { j \in (i + 5)..Len(s) :
        /\ IsAlnum(s[i])
        /\ \A t \in (i + 1)..(j - 1) : IsModelChar(s[t])
        /\ IsAlnum(s[j]) }

\* The end of the match re finds at position i, 0 when there is none: the first
\* alternative before the second, the greedy quantifier giving the longest.
ModelPatternEnd(s, i) ==
    IF ModelPatternEndsBW(s, i) # {} THEN SetMax(ModelPatternEndsBW(s, i))
    ELSE IF ModelPatternEndsPlain(s, i) # {} THEN SetMax(ModelPatternEndsPlain(s, i))
    ELSE 0

\* re.findall of the model pattern from position i on: leftmost matches, not
\* overlapping, in the order found.
RECURSIVE FindModelPatterns(_, _)
FindModelPatterns(s, i) ==
    IF i > Len(s) THEN <<>>
    ELSE IF ModelPatternEnd(s, i) = 0 THEN FindModelPatterns(s, i + 1)
    ELSE <<SubSeq(s, i, ModelPatternEnd(s, i))>>
         \o FindModelPatterns(s, ModelPatternEnd(s, i) + 1)

\* Where a match of BW[A-Z0-9][-A-Z0-9]{6,} (re.IGNORECASE) that starts at
\* position i of s can end.
BWPatternEnds(s, i) ==
    { j \in (i + 8)..Len(s) :
        /\ ToUpper(s[i]) = "B" /\ ToUpper(s[i + 1]) = "W" /\ IsAlnum(s[i + 2])
        /\ \A t \in (i + 3)..j : IsDashAlnum(s[t]) }

RECURSIVE FindBWPatterns(_, _)
FindBWPatterns(s, i) ==
    IF i > Len(s) THEN <<>>
    ELSE IF BWPatternEnds(s, i) = {} THEN FindBWPatterns(s, i + 1)
    ELSE <<SubSeq(s, i, SetMax(BWPatternEnds(s, i)))>>
         \o FindBWPatterns(s, SetMax(BWPatternEnds(s, i)) + 1)

\* --------------------------------------------------------------- data model

\* None, or a key that is not set / a value v.
None == <<>>
Some(v) == <<v>>

\* A price or quantity as extracted (see the representation note above).
Value(k, n) == [k |-> k, n |-> n]

\* item.get("price", "Extraction Issue")
GetPrice(item) ==
    IF item.pk = "absent" THEN Value("issue", 0) ELSE Value(item.pk, item.price)

\* item.get("quantity", 1)
GetQuantity(item) ==
    IF item.qk = "absent" THEN Value("num", 1) ELSE Value(item.qk, item.quantity)

\* float(v) raises ValueError (a str that is no number) or TypeError (None)
FloatRaises(v) == v.k \notin {"num", "str"}
\* float(v) where it does not raise
Float(v) == v.n

\* abs(a - b)
Abs(a, b) == IF a >= b THEN a - b ELSE b - a

\* ---------------------------------------------------- the price-book index

\* price_items_dict is an insertion-ordered dict: the sequence of its entries,
\* each under its key model_number.
InDict(dict, m) == \E i \in DOMAIN dict : dict[i].model_number = m
DictGet(dict, m) == dict[CHOOSE i \in DOMAIN dict : dict[i].model_number = m]
DictKeys(dict) == { dict[i].model_number : i \in DOMAIN dict }

\* item.source_column or "Unknown"
SourceColumnOrUnknown(col) == IF col = None \/ col = Some("") THEN Some("Unknown") ELSE col

IndexEntry(item) ==
    [model_number |-> item.model_number,
     price |-> item.price,
     excel_row |-> item.excel_row,
     source_column |-> SourceColumnOrUnknown(item.source_column)]

\* if item.model_number not in price_items_dict
IsFirstOccurrence(dict, item) == ~InDict(dict, item.model_number)

\* The loop with a later row replacing the entry of an earlier one.
RECURSIVE BuildPriceItemsDict_LastWins(_, _, _, _)
BuildPriceItemsDict_LastWins(items, i, dict, warned) ==
    IF i > Len(items) THEN [dict |-> dict, warnings |-> warned]
    ELSE IF ~InDict(dict, items[i].model_number)
         THEN BuildPriceItemsDict_LastWins(items, i + 1, Append(dict, IndexEntry(items[i])), warned)
         ELSE BuildPriceItemsDict_LastWins(items, i + 1,
                  [j \in DOMAIN dict |->
                      IF dict[j].model_number = items[i].model_number
                      THEN IndexEntry(items[i]) ELSE dict[j]],
                  Append(warned, [model_number |-> items[i].model_number,
                                  excel_row |-> items[i].excel_row,
                                  kept_row |-> DictGet(dict, items[i].model_number).excel_row]))

\* The loop over price_items: the index after the rows from i on, and the
\* warnings logged for the rows it ignores.
RECURSIVE BuildPriceItemsDict(_, _, _, _)
BuildPriceItemsDict(items, i, dict, warned) ==
    IF i > Len(items) THEN [dict |-> dict, warnings |-> warned]
    ELSE IF IsFirstOccurrence(dict, items[i])
         THEN BuildPriceItemsDict(items, i + 1, Append(dict, IndexEntry(items[i])), warned)
         ELSE BuildPriceItemsDict(items, i + 1, dict,
                  Append(warned, [model_number |-> items[i].model_number,
                                  excel_row |-> items[i].excel_row,
                                  kept_row |-> DictGet(dict, items[i].model_number).excel_row]))

\* The map that keeps the first key of each dash-free form.
DashlessPriceBook_FirstKey(dict) ==
    [d \in { RemoveDashes(dict[i].model_number) : i \in DOMAIN dict } |->
        dict[SetMin({ i \in DOMAIN dict : RemoveDashes(dict[i].model_number) = d })].model_number]

\* dashless_price_book: every key of the index under its dash-free form, a
\* later key replacing an earlier one of the same form.
DashlessPriceBook(dict) ==
    [d \in { RemoveDashes(dict[i].model_number) : i \in DOMAIN dict } |->
        dict[SetMax({ i \in DOMAIN dict : RemoveDashes(dict[i].model_number) = d })].model_number]

\* ------------------------------------------------------------- candidates

\* The str or int under "model" when it is truthy.
PrimaryModel(item) ==
    IF item.mk = "str" /\ item.model # <<>> THEN <<item.model>>
    ELSE IF item.mk = "num" THEN <<NumModel>>
    ELSE <<>>

\* "description" in item and item["description"]
HasDescription(item) == item.dk = "str" /\ item.description # <<>>

\* for model_number in price_book_model_numbers: if model_number in description
\* (model_numbers is the set in its iteration order)
KnownModelsIn(model_numbers, description) ==
    SelectSeq(model_numbers, LAMBDA m : IsSubstring(m, description))

AllPotentialModels(item, model_numbers) ==
    PrimaryModel(item)
    \o (IF HasDescription(item)
        THEN FindModelPatterns(item.description, 1)
             \o KnownModelsIn(model_numbers, item.description)
             \o FindBWPatterns(item.description, 1)
        ELSE <<>>)

\* The list left as it is, duplicates included.
UniqueModels_KeepAll(models, i) == models

\* Remove duplicates while preserving order.
RECURSIVE UniqueModels(_, _)
UniqueModels(models, i) ==
    IF i > Len(models) THEN <<>>
    ELSE IF \E j \in 1..(i - 1) : models[j] = models[i]
         THEN UniqueModels(models, i + 1)
         ELSE <<models[i]>> \o UniqueModels(models, i + 1)

\* ------------------------------------------------------- matching cascade

BWPrefix == <<"B", "W">>
BPrefix == <<"B">>

\* The first of the positions at which a scan of the candidates stops, 0 when
\* it stops at none.
FirstIndex(positions) == IF positions = {} THEN 0 ELSE SetMin(positions)

\* What a step of the cascade yields: no match, a match (the candidate, the
\* step, and for step 4 the index key to look up), or the exception raised by a
\* str method called on a candidate that is no str.
NoMatch == [outcome |-> "none", step |-> 0, matched_model |-> None, lookup_model_for_dash |-> None]
Matched(model, step, dash) ==
    [outcome |-> "matched", step |-> step, matched_model |-> Some(model), lookup_model_for_dash |-> dash]
Raised == [outcome |-> "raised", step |-> 0, matched_model |-> None, lookup_model_for_dash |-> None]

\* A scan "for model in unique_models" whose body calls a str method on the
\* candidate and breaks at the first candidate with Hit: it raises at a
\* candidate that is no str and is reached before any hit.
ScanIndex(models, hits) ==
    FirstIndex({ j \in DOMAIN models : ~IsStr(models[j]) } \cup hits)

\* STEP 1: if model in price_items_dict
ExactHit(dict, m) == InDict(dict, m)

Step1Exact(models, dict) ==
    LET i == FirstIndex({ j \in DOMAIN models : ExactHit(dict, models[j]) })
    IN  IF i = 0 THEN NoMatch ELSE Matched(models[i], 1, None)

\* STEP 2: model.startswith("BW") and model[2:] in price_items_dict
BWHit(dict, m) == StartsWith(m, BWPrefix) /\ InDict(dict, DropPrefix(m, 2))

Step2BWPrefix(models, dict) ==
    LET i == ScanIndex(models, { j \in DOMAIN models : BWHit(dict, models[j]) })
    IN  IF i = 0 THEN NoMatch
        ELSE IF ~IsStr(models[i]) THEN Raised
        ELSE Matched(models[i], 2, None)

\* STEP 3: model.startswith("B") and not model.startswith("BW") and
\* model[1:] in price_items_dict
\* STEP 3 without the test that excludes BW-prefixed candidates.
BHit_AlsoBW(dict, m) ==
    StartsWith(m, BPrefix) /\ InDict(dict, DropPrefix(m, 1))

BHit(dict, m) ==
    /\ StartsWith(m, BPrefix) /\ ~StartsWith(m, BWPrefix)
    /\ InDict(dict, DropPrefix(m, 1))

Step3BPrefix(models, dict) ==
    LET i == ScanIndex(models, { j \in DOMAIN models : BHit(dict, models[j]) })
    IN  IF i = 0 THEN NoMatch
        ELSE IF ~IsStr(models[i]) THEN Raised
        ELSE Matched(models[i], 3, None)

\* The check made before a dash-removal match is accepted: the dash-free form
\* looked up equals the dash-free form of the index key found.
DashIdentical(dashless, original) == dashless = RemoveDashes(original)

\* A lookup that accepts an index key whose dash-free form merely contains the
\* form looked up (partial matching).
DashLookup_Partial(dashless_book, dashless) ==
    IF \E d \in DOMAIN dashless_book : IsSubstring(dashless, d)
    THEN [r |-> "found",
          key |-> Some(dashless_book[CHOOSE d \in DOMAIN dashless_book : IsSubstring(dashless, d)])]
    ELSE [r |-> "absent", key |-> None]

\* One lookup of STEP 4: "found" with the index key, "rejected" (the
\* candidate is given up: continue), or "absent" (the next variant is tried).
DashLookup(dashless_book, dashless) ==
    IF dashless \notin DOMAIN dashless_book THEN [r |-> "absent", key |-> None]
    ELSE IF DashIdentical(dashless, dashless_book[dashless])
         THEN [r |-> "found", key |-> Some(dashless_book[dashless])]
         ELSE [r |-> "rejected", key |-> None]

\* STEP 4 for one candidate: the candidate itself without dashes, then without
\* its BW prefix, then without its B prefix; the index key on success.
DashMatch(dashless_book, m) ==
    LET plain == DashLookup(dashless_book, RemoveDashes(m))
        bw == DashLookup(dashless_book, RemoveDashes(DropPrefix(m, 2)))
        b == DashLookup(dashless_book, RemoveDashes(DropPrefix(m, 1)))
    IN  IF plain.r # "absent" THEN plain.key
        ELSE IF StartsWith(m, BWPrefix) /\ bw.r # "absent" THEN bw.key
        ELSE IF StartsWith(m, BPrefix) /\ ~StartsWith(m, BWPrefix) /\ b.r # "absent" THEN b.key
        ELSE None

Step4DashRemoval(models, dict) ==
    LET book == DashlessPriceBook(dict)
        i == ScanIndex(models, { j \in DOMAIN models : DashMatch(book, models[j]) # None })
    IN  IF i = 0 THEN NoMatch
        ELSE IF ~IsStr(models[i]) THEN Raised
        ELSE Matched(models[i], 4, DashMatch(book, models[i]))

\* The cascade run candidate by candidate: the first candidate that any step
\* matches, by the first step that matches it.
MatchModel_CandidateMajor(models, dict) ==
    LET hit(m) == Step1Exact(<<m>>, dict).outcome = "matched"
                  \/ Step2BWPrefix(<<m>>, dict).outcome = "matched"
                  \/ Step3BPrefix(<<m>>, dict).outcome = "matched"
                  \/ Step4DashRemoval(<<m>>, dict).outcome = "matched"
        i == FirstIndex({ j \in DOMAIN models : hit(models[j]) })
        one == <<models[i]>>
    IN  IF i = 0 THEN NoMatch
        ELSE IF Step1Exact(one, dict).outcome = "matched" THEN Step1Exact(one, dict)
        ELSE IF Step2BWPrefix(one, dict).outcome = "matched" THEN Step2BWPrefix(one, dict)
        ELSE IF Step3BPrefix(one, dict).outcome = "matched" THEN Step3BPrefix(one, dict)
        ELSE Step4DashRemoval(one, dict)

\* The cascade: each step runs only if not matched_model.
MatchModel(models, dict) ==
    LET s1 == Step1Exact(models, dict)
        s2 == Step2BWPrefix(models, dict)
        s3 == Step3BPrefix(models, dict)
        s4 == Step4DashRemoval(models, dict)
    IN  IF s1.outcome # "none" THEN s1
        ELSE IF s2.outcome # "none" THEN s2
        ELSE IF s3.outcome # "none" THEN s3
        ELSE s4

\* The lookup with only one character removed from a BW-prefixed model.
LookupModel_BWAsB(matched_model, lookup_model_for_dash) ==
    IF lookup_model_for_dash # None THEN lookup_model_for_dash[1]
    ELSE IF StartsWith(matched_model, BPrefix) THEN DropPrefix(matched_model, 1)
    ELSE matched_model

\* The lookup that forgets the index key found by dash removal.
LookupModel_NoDash(matched_model, lookup_model_for_dash) ==
    IF StartsWith(matched_model, BWPrefix) THEN DropPrefix(matched_model, 2)
    ELSE IF StartsWith(matched_model, BPrefix) THEN DropPrefix(matched_model, 1)
    ELSE matched_model

\* The model looked up in the index for a matched candidate.
LookupModel(matched_model, lookup_model_for_dash) ==
    IF lookup_model_for_dash # None THEN lookup_model_for_dash[1]
    ELSE IF StartsWith(matched_model, BWPrefix) THEN DropPrefix(matched_model, 2)
    ELSE IF StartsWith(matched_model, BPrefix) /\ ~StartsWith(matched_model, BWPrefix)
         THEN DropPrefix(matched_model, 1)
    ELSE matched_model

\* --------------------------------------------------------- classification

\* The sentinel model of a line without one.
UnknownItem == <<"Unknown Item">>

\* item.get("model", ""), replaced by the sentinel when None or "".
DisplayModel(item) ==
    IF item.mk = "str" /\ item.model # <<>> THEN item.model
    ELSE IF item.mk = "num" THEN NumModel
    ELSE UnknownItem

\* The result dict as first built for a line.
InitialResult(item, po_line_number) ==
    [model |-> DisplayModel(item),
     po_price |-> GetPrice(item),
     quantity |-> GetQuantity(item),
     status |-> "Data Extraction Issue",
     po_line_number |-> po_line_number,
     price_book_row |-> None,
     error_value |-> 0,
     description |-> IF item.dk = "absent" THEN None
                     ELSE Some([k |-> item.dk, s |-> item.description]),
     book_price |-> None,
     source_column |-> None,
     discrepancy |-> None]

\* po_price == book_price_float
PricesEqual(po_price, book_price) == po_price = book_price

\* The difference without abs().
PriceDiff_Signed(po_price, book_price) == po_price - book_price

\* price_diff = abs(po_price - book_price_float)
PriceDiff(po_price, book_price) == Abs(po_price, book_price)

\* The error value without the quantity.
ErrorValue_NoQuantity(price_diff, quantity) == price_diff

\* result["error_value"] = price_diff * quantity
ErrorValue(price_diff, quantity) == price_diff * quantity

\* The try block: the three float() conversions, then the comparison.
ComparePrices(result, item, book_price) ==
    IF FloatRaises(GetPrice(item)) \/ FloatRaises(result.quantity)
    THEN [result EXCEPT !.status = "Price Format Error"]
    ELSE IF PricesEqual(Float(GetPrice(item)), book_price)
    THEN [result EXCEPT !.status = "Match"]
    ELSE [result EXCEPT !.status = "Mismatch",
                        !.discrepancy = Some(PriceDiff(Float(GetPrice(item)), book_price)),
                        !.error_value = ErrorValue(PriceDiff(Float(GetPrice(item)), book_price),
                                                   Float(result.quantity))]

\* if matched_model: ... the lookup and the comparison.
ClassifyMatched(result, item, match, dict) ==
    LET shown == [result EXCEPT !.model = match.matched_model[1]]
        lookup_model == LookupModel(match.matched_model[1], match.lookup_model_for_dash)
        item_data == DictGet(dict, lookup_model)
    IN  IF ~InDict(dict, lookup_model)
        THEN [shown EXCEPT !.status = "Lookup Error"]
        ELSE ComparePrices([shown EXCEPT !.book_price = Some(item_data.price),
                                         !.price_book_row = item_data.excel_row,
                                         !.source_column = item_data.source_column],
                           item, item_data.price)

\* The unmatched line left with its initial status.
NotFound_StatusUnchanged(result) == result

\* else: result["status"] = "Model Not Found"
NotFound(result) == [result EXCEPT !.status = "Model Not Found"]

\* The line taken to the cascade although it has no price.
PriceMissing_Never(item) == FALSE

\* if "price" not in item
PriceMissing(item) == item.pk = "absent"

\* One iteration of the loop over extracted_data: the exception it raises, or
\* the result it appends with the candidates and the step that decided it.
CompareLine(item, po_line_number, dict, model_numbers) ==
    LET result == InitialResult(item, po_line_number)
        unique_models == UniqueModels(AllPotentialModels(item, model_numbers), 1)
        match == MatchModel(unique_models, dict)
    IN  IF PriceMissing(item)
        THEN [raised |-> FALSE, result |-> result, unique_models |-> <<>>, step |-> 0,
              lookup_model |-> None]
        ELSE IF match.outcome = "raised"
        THEN [raised |-> TRUE, result |-> result, unique_models |-> unique_models, step |-> 0,
              lookup_model |-> None]
        ELSE [raised |-> FALSE,
              result |-> IF match.outcome = "matched"
                         THEN ClassifyMatched(result, item, match, dict)
                         ELSE NotFound(result),
              unique_models |-> unique_models,
              step |-> match.step,
              lookup_model |-> IF match.outcome = "matched"
                               THEN Some(LookupModel(match.matched_model[1],
                                                     match.lookup_model_for_dash))
                               ELSE None]

\* ------------------------------------------------------------------ report

\* The text of the report is a str like the models: a tuple of pieces, the
\* literal parts of the f-strings being one piece each and "\n" a piece of its
\* own.

\* str(n) of a natural number.
DigitChar(d) == <<"0", "1", "2", "3", "4", "5", "6", "7", "8", "9">>[d + 1]
RECURSIVE Str(_)
Str(n) == IF n < 10 THEN <<DigitChar(n)>> ELSE Str(n \div 10) \o <<DigitChar(n % 10)>>

\* f"{x:.2f}" of a float; the prices of the model are whole and not negative.
TwoDecimals(n) == Str(n) \o <<".", "0", "0">>

\* str(v) of a price that float() rejects.
RawText(v) ==
    IF v.k = "null" THEN <<"None">>
    ELSE IF v.k = "issue" THEN <<"Extraction Issue">>
    ELSE <<"abc">>

\* try: f"${float(v):.2f}" except (ValueError, TypeError): f"${v}"
FormatPrice(v) ==
    IF FloatRaises(v) THEN <<"$">> \o RawText(v) ELSE <<"$">> \o TwoDecimals(Float(v))

\* The po_number of the default filename "Unknown PO", in which no pattern
\* finds a digit.
PoNumber == <<"Unknown PO">>

\* The subject, the greeting and the sentence that introduces the lines.
ReportHeader(po_number) ==
    <<"Subject: Purchase Order Review - ">> \o po_number
        \o <<"\n", "\n", "Hi,", "\n", "\n", "I have reviewed your purchase order (">>
        \o po_number
        \o <<"). The following discrepancies have been found:", "\n", "\n">>

\* The filter that keeps the Mismatch results only.
IsProblemItem_MismatchOnly(item) == item.status = "Mismatch"

\* item['status'] in ["Mismatch", "Model Not Found"]
IsProblemItem(item) == item.status \in {"Mismatch", "Model Not Found"}

\* problem_items
ProblemItems(comparison_results) == SelectSeq(comparison_results, IsProblemItem)

\* f" (Row {item['price_book_row']})" if item.get('price_book_row') else ""
SourceInfo(item) ==
    IF item.price_book_row = None \/ item.price_book_row = Some(0) THEN <<>>
    ELSE <<" (Row ">> \o Str(item.price_book_row[1]) \o <<")">>

\* try: f"${float(item['book_price']):.2f}"; the book price is a float.
BookPriceText(book_price) == <<"$">> \o TwoDecimals(book_price[1])

\* The line of a Mismatch.
MismatchLine(item) ==
    <<"PO Line ">> \o Str(item.po_line_number) \o <<" - ">> \o item.model
        \o <<" - PO Price ">> \o FormatPrice(item.po_price)
        \o <<" - Price Book ">> \o BookPriceText(item.book_price)
        \o SourceInfo(item) \o <<"\n">>

\* The line of a Model Not Found.
NotFoundLine(item) ==
    <<"PO Line ">> \o Str(item.po_line_number) \o <<" - ">> \o item.model
        \o <<" - Model not found in price book", "\n">>

\* The loop over problem_items, from the i-th on.
RECURSIVE ProblemLines(_, _)
ProblemLines(problem_items, i) ==
    IF i > Len(problem_items) THEN <<>>
    ELSE (IF problem_items[i].status = "Mismatch" THEN MismatchLine(problem_items[i])
          ELSE IF problem_items[i].status = "Model Not Found"
          THEN NotFoundLine(problem_items[i])
          ELSE <<>>)
         \o ProblemLines(problem_items, i + 1)

AgreementSentence == "No price discrepancies found. All prices match our records."
ClosingLine ==
    "Please revise these items and resubmit at your convenience. We truly appreciate your business."

\* The agreement sentence written whenever no result is a Mismatch.
NoProblemItems_NoMismatch(problem_items) ==
    \A i \in DOMAIN problem_items : problem_items[i].status # "Mismatch"

\* if not problem_items
NoProblemItems(problem_items) == problem_items = <<>>

\* generate_email_report
GenerateEmailReport(comparison_results, po_number) ==
    LET problem_items == ProblemItems(comparison_results)
    IN  ReportHeader(po_number)
            \o ProblemLines(problem_items, 1)
            \o (IF NoProblemItems(problem_items) THEN <<AgreementSentence, "\n">> ELSE <<>>)
            \o <<"\n", ClosingLine, "\n">>

\* --------------------------------------------------------------- PO number

\* \d
IsDigit(c) == c \in {"0", "1", "2", "3", "4", "5", "6", "7", "8", "9"}

\* One character with its case folded, as re.IGNORECASE compares letters.
LowerLetters == <<"a", "b", "c", "d", "e", "f", "g", "h", "i", "j", "k", "l", "m",
                  "n", "o", "p", "q", "r", "s", "t", "u", "v", "w", "x", "y", "z">>
UpperLetters == <<"A", "B", "C", "D", "E", "F", "G", "H", "I", "J", "K", "L", "M",
                  "N", "O", "P", "Q", "R", "S", "T", "U", "V", "W", "X", "Y", "Z">>
CaseFold(c) ==
    IF \E k \in DOMAIN LowerLetters : LowerLetters[k] = c
    THEN UpperLetters[CHOOSE k \in DOMAIN LowerLetters : LowerLetters[k] = c]
    ELSE c

\* os.path.basename: what follows the last "/".
Basename(path) ==
    LET slashes == { i \in DOMAIN path : path[i] = "/" }
    IN  IF slashes = {} THEN path ELSE SubSeq(path, SetMax(slashes) + 1, Len(path))

\* os.path.splitext(...)[0]: the name up to its last dot, when a character
\* other than a dot comes before that dot.
SplitextRoot(name) ==
    LET dots == { i \in DOMAIN name : name[i] = "." }
    IN  IF dots # {} /\ \E i \in 1..(SetMax(dots) - 1) : name[i] # "."
        THEN SubSeq(name, 1, SetMax(dots) - 1)
        ELSE name

\* The literal words of the patterns.
WordP == <<"P">>
WordPO == <<"P", "O">>
WordPurchase == <<"P", "U", "R", "C", "H", "A", "S", "E">>
WordOrder == <<"O", "R", "D", "E", "R">>

\* The position after the literal word when s reads it from position i on,
\* in either case; 0 when it does not.
AfterWord(word, s, i) ==
    IF /\ i + Len(word) - 1 <= Len(s)
       /\ \A k \in DOMAIN word : CaseFold(s[i + k - 1]) = word[k]
    THEN i + Len(word)
    ELSE 0

\* [-_]?: the position after the separator, if there is one at position i.
AfterSeparator(s, i) ==
    IF i = 0 THEN 0
    ELSE IF i <= Len(s) /\ s[i] \in {"-", "_"} THEN i + 1
    ELSE i

\* The position after the longest run of digits that starts at position i;
\* i itself when there is none.
RECURSIVE DigitsEnd(_, _)
DigitsEnd(s, i) ==
    IF i <= Len(s) /\ IsDigit(s[i]) THEN DigitsEnd(s, i + 1) ELSE i

\* The position after the longest run of zeros that starts at position i.
RECURSIVE ZerosEnd(_, _)
ZerosEnd(s, i) ==
    IF i <= Len(s) /\ s[i] = "0" THEN ZerosEnd(s, i + 1) ELSE i

\* 0*(\d+) read from position i: 0* takes every leading zero but gives the last
\* one back when no other digit follows; the group is the rest of the run.
\* None when no digit stands at i.
ZerosThenDigits(s, i) ==
    IF i = 0 \/ DigitsEnd(s, i) = i THEN None
    ELSE IF ZerosEnd(s, i) = DigitsEnd(s, i)
    THEN Some(SubSeq(s, DigitsEnd(s, i) - 1, DigitsEnd(s, i) - 1))
    ELSE Some(SubSeq(s, ZerosEnd(s, i), DigitsEnd(s, i) - 1))

\* (\d{5,}) read from position i.
FiveDigits(s, i) ==
    IF DigitsEnd(s, i) - i >= 5 THEN Some(SubSeq(s, i, DigitsEnd(s, i) - 1)) ELSE None

\* group(1) of pattern k of po_patterns matched at position i, or None.
PatternAt(k, s, i) ==
    IF k = 1 THEN ZerosThenDigits(s, AfterWord(WordP, s, i))
    ELSE IF k = 2 THEN ZerosThenDigits(s, AfterSeparator(s, AfterWord(WordPO, s, i)))
    ELSE IF k = 3
    THEN LET order == AfterSeparator(s, AfterWord(WordPurchase, s, i))
         IN  IF order = 0 THEN None
             ELSE ZerosThenDigits(s, AfterSeparator(s, AfterWord(WordOrder, s, order)))
    ELSE IF k = 4 THEN ZerosThenDigits(s, AfterSeparator(s, AfterWord(WordOrder, s, i)))
    ELSE FiveDigits(s, i)

\* re.search(pattern k, s, re.IGNORECASE): group(1) of the leftmost match.
PatternSearch(k, s) ==
    LET starts == { i \in DOMAIN s : PatternAt(k, s, i) # None }
    IN  IF starts = {} THEN None ELSE PatternAt(k, s, SetMin(starts))

\* The patterns tried with the bare run of digits first.
PatternOrder_DigitsFirst == <<5, 1, 2, 3, 4>>

\* po_patterns, in the order of the list.
PatternOrder == <<1, 2, 3, 4, 5>>

\* for pattern in po_patterns: ... return match.group(1); return base_name
RECURSIVE FirstPatternFrom(_, _)
FirstPatternFrom(n, base_name) ==
    IF n > Len(PatternOrder) THEN base_name
    ELSE IF PatternSearch(PatternOrder[n], base_name) # None
    THEN PatternSearch(PatternOrder[n], base_name)[1]
    ELSE FirstPatternFrom(n + 1, base_name)

\* extract_po_number_from_filename
ExtractPoNumberFromFilename(file) ==
    FirstPatternFrom(1, SplitextRoot(Basename(file)))

\* ------------------------------------------------- spreadsheet to PriceItem

\* A spreadsheet as pd.read_excel(filepath, header=None) returns it: the header
\* row, of which only the cells of columns D and E are read (None where
\* pd.notna is false), and the rows below it. A cell of columns D or E is
\* [k, n]: k = "nan" (empty), "num" (float() gives n) or "text" (float()
\* raises); a cell of column A is a str, or <<>> when empty.
Cell(k, n) == [k |-> k, n |-> n]
SheetRow(a, d, e) == [a |-> a, d |-> d, e |-> e]

\* column_headers.get(4, "Column E") and column_headers.get(3, "Column D")
HeaderE(header) == IF header.e = None THEN "Column E" ELSE header.e[1]
HeaderD(header) == IF header.d = None THEN "Column D" ELSE header.d[1]

\* Whether the row has a price: column E if float() takes it, else column D.
PriceFromE(row) == row.e.k = "num"
PriceFromD(row) == ~PriceFromE(row) /\ row.d.k = "num"
HasRowPrice(row) == PriceFromE(row) \/ PriceFromD(row)
RowPrice(row) == IF PriceFromE(row) THEN row.e.n ELSE row.d.n
RowColumn(header, row) == IF PriceFromE(row) THEN HeaderE(header) ELSE HeaderD(header)

\* The entry stored for the row at DataFrame index `index`.
PriceInfo(header, row, index) ==
    [model_number |-> row.a,
     price |-> TwoDecimals(RowPrice(row)),
     source_column |-> RowColumn(header, row),
     excel_row |-> index + 1]

\* price_data[model_number] = {...} on an insertion-ordered dict: a new key is
\* appended to the dict, an old key keeps its place and gets the new value.
DictSet(data, entry) ==
    IF \E j \in DOMAIN data : data[j].model_number = entry.model_number
    THEN [j \in DOMAIN data |->
             IF data[j].model_number = entry.model_number THEN entry ELSE data[j]]
    ELSE Append(data, entry)

\* The loop of parse_excel_file over the rows below the header, row i of them
\* being at DataFrame index i.
RECURSIVE ParseRows(_, _, _, _)
ParseRows(header, rows, i, data) ==
    IF i > Len(rows) THEN data
    ELSE IF rows[i].a = <<>> \/ rows[i].a = <<"nan">> THEN ParseRows(header, rows, i + 1, data)
    ELSE IF HasRowPrice(rows[i])
         THEN ParseRows(header, rows, i + 1, DictSet(data, PriceInfo(header, rows[i], i)))
    ELSE ParseRows(header, rows, i + 1, data)

ParseExcelFile(file) == ParseRows(file.header, file.rows, 1, <<>>)

\* float(price_info["price"]) of the text that "{price:.2f}" wrote: the digits
\* before the point, the decimals of a whole price being zeros.
DigitValue(c) == CHOOSE d \in 0..9 : DigitChar(d) = c
RECURSIVE WholePart(_, _, _)
WholePart(text, i, n) ==
    IF i > Len(text) \/ text[i] = "." THEN n
    ELSE WholePart(text, i + 1, 10 * n + DigitValue(text[i]))
FloatOfText(text) == WholePart(text, 1, 0)

\* The PriceItem rows that upload_price_book adds for price_data, one per
\* entry in the order of the dict.
NewPriceItems(data) ==
    [j \in DOMAIN data |->
        [model_number |-> data[j].model_number,
         price |-> FloatOfText(data[j].price),
         excel_row |-> Some(data[j].excel_row),
         source_column |-> Some(data[j].source_column)]]

\* ------------------------------------------------------------ persistence

\* A row of the table processed_po and a row of po_line_item.
ProcessedPO(id, file, price_book_id, user_id) ==
    [id |-> id, filename |-> file, price_book_id |-> price_book_id, user_id |-> user_id]

\* float(v) if isinstance(v, (int, float, str)) else the default: it raises
\* ValueError for a str that is no number.
IsIntFloatStr(v) == v.k \in {"num", "str", "bad", "issue"}
FloatOfResultRaises(v) == IsIntFloatStr(v) /\ FloatRaises(v)

\* model_number = result.get("model", "Unknown"), "Unknown" also for None and "".
LineItemModel(result) == IF result.model = <<>> THEN <<"Unknown">> ELSE result.model

\* POLineItem(...) raises when float(result["po_price"]) does; book_price and
\* discrepancy are floats or missing in every result.
LineItemRaises(result) == FloatOfResultRaises(result.po_price)
POLineItem(processed_po_id, result) ==
    [processed_po_id |-> processed_po_id,
     model_number |-> LineItemModel(result),
     po_price |-> IF IsIntFloatStr(result.po_price) THEN Float(result.po_price) ELSE 0,
     book_price |-> result.book_price,
     status |-> result.status,
     discrepancy |-> result.discrepancy]

\* sum(result.get("error_value", 0) for result in comparison_results)
RECURSIVE TotalErrorValue(_)
TotalErrorValue(comparison_results) ==
    IF comparison_results = <<>> THEN 0
    ELSE comparison_results[1].error_value + TotalErrorValue(Tail(comparison_results))

\* The JSON responses of process_purchase_order.
NoResponse ==
    [status |-> 0, success |-> FALSE, comparison_results |-> <<>>, total_error_value |-> 0,
     price_books |-> {}]
ErrorResponse(status) ==
    [status |-> status, success |-> FALSE, comparison_results |-> <<>>, total_error_value |-> 0,
     price_books |-> {}]
SuccessResponse(comparison_results) ==
    [status |-> 200, success |-> TRUE, comparison_results |-> comparison_results,
     total_error_value |-> TotalErrorValue(comparison_results), price_books |-> {}]

\* price_book.user_id != current_user.id, negated
OwnedBy_Anyone(price_book, user_id) == TRUE

OwnedBy(price_book, user_id) == price_book.user_id = user_id

\* compare_with_price_book as a whole: whether it raises, and the list it
\* returns, when the set of model numbers is iterated in the given order.
CompareWithPriceBook(data, items, order) ==
    LET dict == BuildPriceItemsDict(items, 1, <<>>, <<>>).dict
        lines == [i \in DOMAIN data |-> CompareLine(data[i], i, dict, order)]
    IN  [raised |-> \E i \in DOMAIN data : lines[i].raised,
         results |-> [i \in DOMAIN data |-> lines[i].result]]

\* The rows that the loop over comparison_results adds, or the fact that it
\* raises.
LineItemsRaise(comparison_results) ==
    \E i \in DOMAIN comparison_results : LineItemRaises(comparison_results[i])
NewLineItems(processed_po_id, comparison_results) ==
    [i \in DOMAIN comparison_results |-> POLineItem(processed_po_id, comparison_results[i])]

\* The answers of the pages: jsonify(price_books), and a redirect with a
\* flashed message of category success, warning or danger.
PriceBooksResponse(ids) ==
    [status |-> 200, success |-> TRUE, comparison_results |-> <<>>, total_error_value |-> 0,
     price_books |-> ids]
Deleted ==
    [status |-> 200, success |-> TRUE, comparison_results |-> <<>>, total_error_value |-> 0,
     price_books |-> {}]
Redirect(category) ==
    [status |-> 302, success |-> category = "success", comparison_results |-> <<>>,
     total_error_value |-> 0, price_books |-> {}]

\* user.id == current_user.id in toggle_admin and delete_user, dropped
IsSelf_Never(user_id, current_user_id) == FALSE

IsSelf(user_id, current_user_id) == user_id = current_user_id

\* db.session with nothing pending.
EmptySession == [po |-> None, items |-> <<>>]

\* ------------------------------------------------------------------ inputs

A111 == <<"A", "1", "1", "1">>
ADash111 == <<"A", "-", "1", "1", "1">>
BA111 == <<"B", "A", "1", "1", "1">>
BWA111 == <<"B", "W", "A", "1", "1", "1">>
WA111 == <<"W", "A", "1", "1", "1">>
BADash111 == <<"B", "A", "-", "1", "1", "1">>
BWADash111 == <<"B", "W", "A", "-", "1", "1", "1">>
A1Dash11 == <<"A", "1", "-", "1", "1">>

\* "BA-111 BWA111"
DescTwoTokens == BADash111 \o <<" ">> \o BWA111
\* "BWA-1-11-"
DescTrailingDash == <<"B", "W", "A", "-", "1", "-", "1", "1", "-">>

\* Model numbers of price books: non-empty strs (PriceItem.model_number is
\* NOT NULL and parse_excel_file skips empty ones).
KeyModels == {A111, ADash111, BA111, BWA111, WA111}
\* Model strs as extracted from a PO.
RawModels == {A111, ADash111, BA111, BWA111, BADash111, BWADash111, A1Dash11}

\* A PriceItem row: price is a NOT NULL float, excel_row and source_column
\* are nullable.
PriceItemRow(model, price, row, col) ==
    [model_number |-> model, price |-> price, excel_row |-> row, source_column |-> col]

\* An extracted PO line.
POLine(mk, model, pk, price, qk, quantity, dk, description) ==
    [mk |-> mk, model |-> model, pk |-> pk, price |-> price,
     qk |-> qk, quantity |-> quantity, dk |-> dk, description |-> description]

\* The sequences of at most n elements of S.
SeqsUpTo(S, n) == UNION { [1..k -> S] : k \in 0..n }

\* The orders a set can be iterated in.
Orderings(S) ==
    { f \in [1..Cardinality(S) -> S] : \A i, j \in DOMAIN f : f[i] = f[j] => i = j }

\* Price books for the matching cascade: every row with its row number and
\* column known, row i of the book at Excel row i + 1.
MatchItems(i) ==
    { PriceItemRow(m, p, Some(i + 1), Some("E")) : m \in KeyModels, p \in 1..MaxPrice }
MatchBooks ==
    { b \in SeqsUpTo(UNION { MatchItems(i) : i \in 1..MaxItems }, MaxItems) :
        \A i \in DOMAIN b : b[i] \in MatchItems(i) }
\* Single lines with a numeric price: every raw model with every description.
MatchLines ==
    { POLine("str", m, "num", 1, "absent", 0, d[1], d[2]) :
        m \in RawModels,
        d \in {<<"absent", <<>>>>, <<"str", DescTwoTokens>>, <<"str", DescTrailingDash>>} }
    \cup { POLine("str", <<>>, "num", 1, "absent", 0, "str", DescTwoTokens) }
MatchBatches == { <<l>> : l \in MatchLines }

\* Price books for whole batches: two models at price 1, rows with and without
\* their provenance.
BatchItems(i) ==
    { PriceItemRow(m, 1, pv[1], pv[2]) :
        m \in {A111, BA111},
        pv \in {<<Some(i + 1), Some("E")>>, <<None, None>>} }
BatchBooks ==
    { b \in SeqsUpTo(UNION { BatchItems(i) : i \in 1..MaxItems }, MaxItems) :
        \A i \in DOMAIN b : b[i] \in BatchItems(i) }
\* Lines for whole batches: one line for each way a line can end.
BatchLines ==
    { \* a known model at the book's price, as a number and as a str
      POLine("str", A111, "num", 1, "absent", 0, "absent", <<>>),
      POLine("str", A111, "str", 1, "absent", 0, "null", <<>>),
      \* below and above the book's price, with a quantity
      POLine("str", A111, "num", 0, "absent", 0, "absent", <<>>),
      POLine("str", A111, "str", MaxPrice, "num", MaxQty, "absent", <<>>),
      \* with a quantity, a price that float() rejects
      POLine("str", A111, "str", MaxPrice, "bad", 0, "absent", <<>>),
      POLine("str", A111, "bad", 0, "absent", 0, "absent", <<>>),
      POLine("str", A111, "null", 0, "absent", 0, "absent", <<>>),
      \* a B-prefixed model
      POLine("str", BA111, "num", 1, "absent", 0, "absent", <<>>),
      \* no model, an empty model, a model that is a JSON number
      POLine("absent", <<>>, "num", 1, "absent", 0, "absent", <<>>),
      POLine("str", <<>>, "num", MaxPrice, "absent", 0, "absent", <<>>),
      POLine("num", <<>>, "num", 1, "absent", 0, "absent", <<>>),
      \* no price
      POLine("str", A111, "absent", 0, "absent", 0, "absent", <<>>),
      POLine("null", <<>>, "absent", 0, "absent", 0, "str", <<>>),
      POLine("str", <<>>, "absent", 0, "absent", 0, "absent", <<>>) }
Batches == SeqsUpTo(BatchLines, MaxLines)

\* ------------------------------------------------------------ state machine

VARIABLES
    price_items,               \* the PriceItem rows of the price book, in query order
    extracted_data,            \* the PO lines handed to compare_with_price_book
    pc,                        \* "start", "lines", "done" (returned), "raised",
                               \* "reported"
    price_book_model_numbers,  \* the set of model numbers, in its iteration order
    price_items_dict,          \* the index
    warnings,                  \* the duplicate warnings logged
    results,                   \* the result list
    decisions,                 \* per result: the candidates, the deciding step and the
                               \* model looked up (what the function logs)
    email_text,                \* the report generated from the results
    filename,                  \* the filename handed to extract_po_number_from_filename
    po_number,                 \* None, or the PO number it returned
    excel_file,                \* the spreadsheet handed to parse_excel_file
    price_data,                \* the dict it returned
    db_users,                  \* table user: the committed rows
    db_price_books,            \* table price_book
    db_price_items,            \* table price_item: per price book id, its rows
    db_processed_pos,          \* table processed_po
    db_po_line_items,          \* table po_line_item, in insertion order
    po_id_seq,                 \* the last id given out for processed_po
    session,                   \* db.session of the request: rows added, not committed
    upload_folder,             \* the files in UPLOAD_FOLDER
    request,                   \* the request being handled (or handled last)
    response,                  \* its response
    other_pc                   \* a concurrent request of the same filename

\* The variables of the reconciliation and the others.
reconcile_vars == <<price_items, extracted_data, pc, price_book_model_numbers,
                    price_items_dict, warnings, results, decisions, email_text>>
po_vars == <<filename, po_number>>
upload_vars == <<excel_file, price_data>>
db_vars == <<db_users, db_price_books, db_price_items, db_processed_pos, db_po_line_items>>
app_vars == <<db_vars, po_id_seq, session, upload_folder, request, response, other_pc>>
other_vars == <<po_vars, upload_vars, app_vars>>
vars == <<reconcile_vars, other_vars>>

\* Nothing but a reconciliation going on.
NoExcelFile == [header |-> [d |-> None, e |-> None], rows |-> <<>>]
UploadIdle ==
    /\ excel_file = NoExcelFile
    /\ price_data = <<>>
NoRequest == [handler |-> "none", user |-> 0, target |-> "", target_user |-> 0]
Request(handler, user, target, target_user) ==
    [handler |-> handler, user |-> user, target |-> target, target_user |-> target_user]
AppIdle ==
    /\ db_users = {}
    /\ db_price_books = {}
    /\ db_price_items = <<>>
    /\ db_processed_pos = {}
    /\ db_po_line_items = <<>>
    /\ po_id_seq = 0
    /\ session = EmptySession
    /\ upload_folder = {}
    /\ request = NoRequest
    /\ response = NoResponse
    /\ other_pc = "idle"
OthersIdle ==
    /\ filename = <<>>
    /\ po_number = None
    /\ UploadIdle
    /\ AppIdle

InitWith(books, batches) ==
    /\ price_items \in books
    /\ extracted_data \in batches
    /\ pc = "start"
    /\ price_book_model_numbers = <<>>
    /\ price_items_dict = <<>>
    /\ warnings = <<>>
    /\ results = <<>>
    /\ decisions = <<>>
    /\ email_text = <<>>
    /\ OthersIdle

\* The head of compare_with_price_book: the set of model numbers and the index.
BuildIndex ==
    /\ pc = "start"
    /\ LET built == BuildPriceItemsDict(price_items, 1, <<>>, <<>>)
       IN  /\ price_items_dict' = built.dict
           /\ warnings' = built.warnings
    /\ price_book_model_numbers' \in
           Orderings({ price_items[i].model_number : i \in DOMAIN price_items })
    /\ pc' = "lines"
    /\ UNCHANGED <<price_items, extracted_data, results, decisions, email_text>>
    /\ UNCHANGED other_vars

\* One iteration of the loop over extracted_data.
CompareNextLine ==
    /\ pc = "lines"
    /\ Len(results) < Len(extracted_data)
    /\ \E out \in { CompareLine(extracted_data[Len(results) + 1], Len(results) + 1,
                                price_items_dict, price_book_model_numbers) } :
           IF out.raised
           THEN /\ pc' = "raised"
                /\ UNCHANGED <<results, decisions>>
           ELSE /\ pc' = pc
                /\ results' = Append(results, out.result)
                /\ decisions' = Append(decisions,
                       [unique_models |-> out.unique_models, step |-> out.step,
                        lookup_model |-> out.lookup_model])
    /\ UNCHANGED <<price_items, extracted_data, price_book_model_numbers,
                   price_items_dict, warnings, email_text>>
    /\ UNCHANGED other_vars

\* return results
Return ==
    /\ pc = "lines"
    /\ Len(results) = Len(extracted_data)
    /\ pc' = "done"
    /\ UNCHANGED <<price_items, extracted_data, price_book_model_numbers,
                   price_items_dict, warnings, results, decisions, email_text>>
    /\ UNCHANGED other_vars

\* email_report = generate_email_report(comparison_results, ...)
Report ==
    /\ pc = "done"
    /\ email_text' = GenerateEmailReport(results, PoNumber)
    /\ pc' = "reported"
    /\ UNCHANGED <<price_items, extracted_data, price_book_model_numbers,
                   price_items_dict, warnings, results, decisions>>
    /\ UNCHANGED other_vars

Next == BuildIndex \/ CompareNextLine \/ Return \/ Report

\* Whole batches against small price books.
Init == InitWith(BatchBooks, Batches)
Spec == Init /\ [][Next]_vars

\* Single lines against the price books of the matching cascade.
InitMatch == InitWith(MatchBooks, MatchBatches)
SpecMatch == InitMatch /\ [][Next]_vars

\* Lines without a model whose description is one word of TokenLength
\* characters, against the empty price book and one with a dashed key.
TokenLength == 6
TokenAlphabet == {"B", "b", "1", "-"}
TokenWords == [1..TokenLength -> TokenAlphabet]
DashedKey == <<"B", "-", "B", "B", "B", "B">>
TokenBooks == {<<>>, <<PriceItemRow(DashedKey, 1, Some(2), Some("E"))>>}
TokenBatches ==
    { <<POLine("absent", <<>>, "num", 1, "absent", 0, "str", w)>> : w \in TokenWords }
InitTokens == InitWith(TokenBooks, TokenBatches)
SpecTokens == InitTokens /\ [][Next]_vars

\* ------------------------------------------------- PO number, state machine

\* Filenames: a directory, a word, a separator, a number, a second word and
\* number, an extension, each of them possibly missing.
FileDirs == {<<>>, <<"u", "p", "/">>}
FileWords == {<<>>, <<"P">>, <<"p", "o">>, <<"O", "r", "d", "e", "r">>,
              <<"P", "u", "r", "c", "h", "a", "s", "e", "O", "r", "d", "e", "r">>,
              <<"P", "u", "r", "c", "h", "a", "s", "e", "_", "o", "r", "d", "e", "r">>,
              <<"v">>}
FileSeparators == {<<>>, <<"-">>, <<"-", "-">>}
FileNumbers == {<<>>, <<"7">>, <<"0", "0", "7">>, <<"0", "0">>, <<"1", "2", "3", "4", "5">>}
FileSecondWords == {<<>>, <<"P">>, <<"p", "o">>, <<"O", "r", "d", "e", "r">>,
                    <<"P", "u", "r", "c", "h", "a", "s", "e", "O", "r", "d", "e", "r">>}
FileSecondNumbers == {<<>>, <<"8">>}
FileExtensions == {<<>>, <<".", "p", "d", "f">>}
Filenames ==
    { d \o w \o sep \o n \o w2 \o n2 \o e :
        d \in FileDirs, w \in FileWords, sep \in FileSeparators, n \in FileNumbers,
        w2 \in FileSecondWords, n2 \in FileSecondNumbers, e \in FileExtensions }

\* Nothing of a reconciliation going on.
ReconcileIdle ==
    /\ price_items = <<>>
    /\ extracted_data = <<>>
    /\ pc = "idle"
    /\ price_book_model_numbers = <<>>
    /\ price_items_dict = <<>>
    /\ warnings = <<>>
    /\ results = <<>>
    /\ decisions = <<>>
    /\ email_text = <<>>

InitPo ==
    /\ ReconcileIdle
    /\ UploadIdle
    /\ AppIdle
    /\ filename \in Filenames
    /\ po_number = None

\* po_number = extract_po_number_from_filename(filename)
ExtractPoNumber ==
    /\ po_number = None
    /\ po_number' = Some(ExtractPoNumberFromFilename(filename))
    /\ UNCHANGED <<filename, reconcile_vars, upload_vars, app_vars>>

NextPo == ExtractPoNumber
SpecPo == InitPo /\ [][NextPo]_vars

\* ------------------------------------- spreadsheet to index, state machine

\* Spreadsheets of at most MaxItems rows below the header, with or without
\* header cells over the two price columns.
SheetModels == {<<>>, A111, BA111}
SheetCellsD == {Cell("nan", 0), Cell("num", 1)}
SheetCellsE == {Cell("nan", 0), Cell("text", 0)} \cup { Cell("num", n) : n \in 1..MaxPrice }
SheetRows == { SheetRow(a, d, e) : a \in SheetModels, d \in SheetCellsD, e \in SheetCellsE }
SheetHeaders == {[d |-> None, e |-> None], [d |-> Some("D"), e |-> Some("E")]}
ExcelFiles == { [header |-> h, rows |-> r] : h \in SheetHeaders, r \in SeqsUpTo(SheetRows, MaxItems) }
UploadBatches == {<<POLine("str", BA111, "num", 1, "absent", 0, "absent", <<>>)>>}

InitUpload ==
    /\ excel_file \in ExcelFiles
    /\ price_data = <<>>
    /\ price_items = <<>>
    /\ extracted_data \in UploadBatches
    /\ pc = "upload"
    /\ price_book_model_numbers = <<>>
    /\ price_items_dict = <<>>
    /\ warnings = <<>>
    /\ results = <<>>
    /\ decisions = <<>>
    /\ email_text = <<>>
    /\ filename = <<>>
    /\ po_number = None
    /\ AppIdle

\* price_data = parse_excel_file(filepath)
ParseExcel ==
    /\ pc = "upload"
    /\ price_data' = ParseExcelFile(excel_file)
    /\ pc' = "parsed"
    /\ UNCHANGED <<price_items, extracted_data, price_book_model_numbers,
                   price_items_dict, warnings, results, decisions, email_text>>
    /\ UNCHANGED <<excel_file, po_vars, app_vars>>

\* The loop of upload_price_book over price_data.items() and its commits; the
\* price book is then the one a purchase order is processed against.
StorePriceItems ==
    /\ pc = "parsed"
    /\ price_items' = NewPriceItems(price_data)
    /\ pc' = "start"
    /\ UNCHANGED <<extracted_data, price_book_model_numbers,
                   price_items_dict, warnings, results, decisions, email_text>>
    /\ UNCHANGED other_vars

NextUpload == ParseExcel \/ StorePriceItems \/ BuildIndex \/ CompareNextLine \/ Return \/ Report
SpecUpload == InitUpload /\ [][NextUpload]_vars

\* ------------------------------- process_purchase_order, step by step

\* One /api/process-po request of user 1, who owns price book "b1"; "b2" is
\* the book of user 2 and "b3" is no book. A second request uploads a file of
\* the same name while the first is handled; it names a price book that does
\* not exist, so it saves the file and removes it again.
PoFile == "po.pdf"
PersistUsers == {[id |-> 1, is_admin |-> FALSE], [id |-> 2, is_admin |-> FALSE]}
PersistPriceBooks == {[id |-> "b1", user_id |-> 1], [id |-> "b2", user_id |-> 2]}
PersistBooks == {<<>>, <<PriceItemRow(A111, 1, Some(2), Some("E"))>>}
PersistLines ==
    { POLine("str", A111, "num", 1, "absent", 0, "absent", <<>>),
      POLine("str", A111, "str", 2, "num", 2, "absent", <<>>),
      POLine("str", WA111, "num", 1, "absent", 0, "absent", <<>>),
      POLine("str", A111, "absent", 0, "absent", 0, "absent", <<>>),
      POLine("str", A111, "bad", 0, "absent", 0, "absent", <<>>),
      POLine("str", A111, "null", 0, "absent", 0, "absent", <<>>),
      POLine("num", <<>>, "num", 1, "absent", 0, "absent", <<>>) }
PersistBatches == SeqsUpTo(PersistLines, MaxLines) \ {<<>>}

InitPersist ==
    /\ price_items \in PersistBooks
    /\ extracted_data = <<>>
    /\ pc = "request"
    /\ price_book_model_numbers = <<>>
    /\ price_items_dict = <<>>
    /\ warnings = <<>>
    /\ results = <<>>
    /\ decisions = <<>>
    /\ email_text = <<>>
    /\ filename = <<>>
    /\ po_number = None
    /\ UploadIdle
    /\ db_users = PersistUsers
    /\ db_price_books = PersistPriceBooks
    /\ db_price_items = [b \in {"b1", "b2"} |-> IF b = "b1" THEN price_items ELSE <<>>]
    /\ db_processed_pos = {}
    /\ db_po_line_items = <<>>
    /\ po_id_seq = 0
    /\ session = EmptySession
    /\ upload_folder = {}
    /\ request \in { Request("process-po", 1, b, 0) : b \in {"b1", "b2", "b3"} }
    /\ response = NoResponse
    /\ other_pc = "idle"

\* file.save(filepath)
SaveFile ==
    /\ pc = "request"
    /\ upload_folder' = upload_folder \cup {PoFile}
    /\ pc' = "saved"
    /\ UNCHANGED <<price_items, extracted_data, price_book_model_numbers,
                   price_items_dict, warnings, results, decisions, email_text>>
    /\ UNCHANGED <<po_vars, upload_vars, db_vars, po_id_seq, session, request, response, other_pc>>

\* PriceBook.query.get(price_book_id) and the two checks on it; a rejection
\* removes the file first, and os.remove raises when the file is gone.
FindPriceBook ==
    /\ pc = "saved"
    /\ LET found == { b \in db_price_books : b.id = request.target }
           rejected == found = {} \/ \E b \in found : ~OwnedBy(b, request.user)
       IN  IF ~rejected
           THEN /\ pc' = "checked"
                /\ UNCHANGED <<upload_folder, response>>
           ELSE IF PoFile \in upload_folder
           THEN /\ upload_folder' = upload_folder \ {PoFile}
                /\ response' = ErrorResponse(IF found = {} THEN 404 ELSE 403)
                /\ pc' = "responded"
           ELSE /\ pc' = "failed"
                /\ UNCHANGED <<upload_folder, response>>
    /\ UNCHANGED <<price_items, extracted_data, price_book_model_numbers,
                   price_items_dict, warnings, results, decisions, email_text>>
    /\ UNCHANGED <<po_vars, upload_vars, db_vars, po_id_seq, session, request, other_pc>>

\* extracted_data = extract_data_from_pdf(filepath): the lines the API finds
\* in the file, or an exception (no file, no answer, no JSON array in it).
ExtractData ==
    /\ pc = "checked"
    /\ \/ /\ PoFile \in upload_folder
          /\ extracted_data' \in PersistBatches
          /\ pc' = "start"
       \/ /\ pc' = "failed"
          /\ UNCHANGED extracted_data
    /\ UNCHANGED <<price_items, price_book_model_numbers,
                   price_items_dict, warnings, results, decisions, email_text>>
    /\ UNCHANGED other_vars

\* db.session.add(new_po); db.session.flush()
AddProcessedPO ==
    /\ pc = "reported"
    /\ \/ /\ po_id_seq' = po_id_seq + 1
          /\ session' = [session EXCEPT !.po =
                             Some(ProcessedPO(po_id_seq + 1, PoFile, request.target, request.user))]
          /\ pc' = "flushed"
       \/ /\ pc' = "failed"
          /\ UNCHANGED <<po_id_seq, session>>
    /\ UNCHANGED <<price_items, extracted_data, price_book_model_numbers,
                   price_items_dict, warnings, results, decisions, email_text>>
    /\ UNCHANGED <<po_vars, upload_vars, db_vars, upload_folder, request, response, other_pc>>

\* One iteration of the loop over comparison_results.
AddLineItem ==
    /\ pc = "flushed"
    /\ Len(session.items) < Len(results)
    /\ LET result == results[Len(session.items) + 1]
       IN  IF LineItemRaises(result)
           THEN /\ pc' = "failed"
                /\ UNCHANGED session
           ELSE /\ session' = [session EXCEPT !.items =
                                   Append(@, POLineItem(session.po[1].id, result))]
                /\ UNCHANGED pc
    /\ UNCHANGED <<price_items, extracted_data, price_book_model_numbers,
                   price_items_dict, warnings, results, decisions, email_text>>
    /\ UNCHANGED <<po_vars, upload_vars, db_vars, po_id_seq, upload_folder, request, response, other_pc>>

\* db.session.commit(), which the database may refuse.
Commit ==
    /\ pc = "flushed"
    /\ Len(session.items) = Len(results)
    /\ \/ /\ db_processed_pos' = db_processed_pos \cup {session.po[1]}
          /\ db_po_line_items' = db_po_line_items \o session.items
          /\ session' = EmptySession
          /\ pc' = "committed"
       \/ /\ pc' = "failed"
          /\ UNCHANGED <<db_processed_pos, db_po_line_items, session>>
    /\ UNCHANGED <<price_items, extracted_data, price_book_model_numbers,
                   price_items_dict, warnings, results, decisions, email_text>>
    /\ UNCHANGED <<po_vars, upload_vars, db_users, db_price_books, db_price_items,
                   po_id_seq, upload_folder, request, response, other_pc>>

\* os.remove(filepath) after the commit.
RemoveFile ==
    /\ pc = "committed"
    /\ IF PoFile \in upload_folder
       THEN /\ upload_folder' = upload_folder \ {PoFile}
            /\ pc' = "cleaned"
       ELSE /\ pc' = "failed"
            /\ UNCHANGED upload_folder
    /\ UNCHANGED <<price_items, extracted_data, price_book_model_numbers,
                   price_items_dict, warnings, results, decisions, email_text>>
    /\ UNCHANGED <<po_vars, upload_vars, db_vars, po_id_seq, session, request, response, other_pc>>

\* return jsonify({"success": True, ...})
Respond ==
    /\ pc = "cleaned"
    /\ response' = SuccessResponse(results)
    /\ pc' = "responded"
    /\ UNCHANGED <<price_items, extracted_data, price_book_model_numbers,
                   price_items_dict, warnings, results, decisions, email_text>>
    /\ UNCHANGED <<po_vars, upload_vars, db_vars, po_id_seq, session, upload_folder, request, other_pc>>

\* except Exception: db.session.rollback(); return jsonify({"error": ...}), 500
HandleException ==
    /\ pc \in {"failed", "raised"}
    /\ session' = EmptySession
    /\ response' = ErrorResponse(500)
    /\ pc' = "responded"
    /\ UNCHANGED <<price_items, extracted_data, price_book_model_numbers,
                   price_items_dict, warnings, results, decisions, email_text>>
    /\ UNCHANGED <<po_vars, upload_vars, db_vars, po_id_seq, upload_folder, request, other_pc>>

\* The concurrent request: file.save(filepath) ...
OtherSaveFile ==
    /\ other_pc = "idle"
    /\ pc # "responded"
    /\ upload_folder' = upload_folder \cup {PoFile}
    /\ other_pc' = "saved"
    /\ UNCHANGED reconcile_vars
    /\ UNCHANGED <<po_vars, upload_vars, db_vars, po_id_seq, session, request, response>>

\* ... and its os.remove(filepath) before it answers 404.
OtherRemoveFile ==
    /\ other_pc = "saved"
    /\ upload_folder' = upload_folder \ {PoFile}
    /\ other_pc' = "done"
    /\ UNCHANGED reconcile_vars
    /\ UNCHANGED <<po_vars, upload_vars, db_vars, po_id_seq, session, request, response>>

NextPersist ==
    \/ SaveFile \/ FindPriceBook \/ ExtractData
    \/ BuildIndex \/ CompareNextLine \/ Return \/ Report
    \/ AddProcessedPO \/ AddLineItem \/ Commit \/ RemoveFile \/ Respond
    \/ HandleException
    \/ OtherSaveFile \/ OtherRemoveFile
SpecPersist == InitPersist /\ [][NextPersist]_vars

\* ----------------------------------------- the application, request by request

\* Requests handled one after the other by three users, of whom the first two
\* own a price book each; "b3" is the id of no price book. At most MaxPOs
\* purchase orders are processed.
MaxPOs == 2
UserIds == {1, 2, 3}
AppPriceBooks == {[id |-> "b1", user_id |-> 1], [id |-> "b2", user_id |-> 2]}
PriceBookIds == {"b1", "b2", "b3"}
AppPriceItems ==
    [b \in {"b1", "b2"} |->
        IF b = "b1" THEN <<PriceItemRow(A111, 1, Some(2), Some("E"))>>
        ELSE <<PriceItemRow(A111, 2, Some(2), Some("E"))>>]
AppBatches ==
    { <<POLine("str", A111, "num", 1, "absent", 0, "absent", <<>>)>>,
      <<POLine("str", A111, "bad", 0, "absent", 0, "absent", <<>>)>> }

InitApp ==
    /\ ReconcileIdle
    /\ UploadIdle
    /\ filename = <<>>
    /\ po_number = None
    /\ db_users \in { { [id |-> u, is_admin |-> u \in admins] : u \in UserIds } :
                         admins \in SUBSET UserIds }
    /\ db_price_books = AppPriceBooks
    /\ db_price_items = AppPriceItems
    /\ db_processed_pos = {}
    /\ db_po_line_items = <<>>
    /\ po_id_seq = 0
    /\ session = EmptySession
    /\ upload_folder = {}
    /\ request = NoRequest
    /\ response = NoResponse
    /\ other_pc = "idle"

\* @login_required: the user of the session is a row of the table.
LoggedIn(u) == \E user \in db_users : user.id = u
CurrentUser(u) == CHOOSE user \in db_users : user.id = u
AppUnchanged == UNCHANGED <<reconcile_vars, po_vars, upload_vars, session, upload_folder, other_pc>>

\* GET /api/pricebooks
GetPriceBooks(u) ==
    /\ LoggedIn(u)
    /\ request' = Request("list", u, "", 0)
    /\ response' = PriceBooksResponse({ b.id : b \in { x \in db_price_books : x.user_id = u } })
    /\ UNCHANGED <<db_vars, po_id_seq>>
    /\ AppUnchanged

\* DELETE /api/pricebooks/<price_book_id>
DeletePriceBook(u, price_book_id) ==
    /\ LoggedIn(u)
    /\ request' = Request("delete", u, price_book_id, 0)
    /\ LET found == { b \in db_price_books : b.id = price_book_id /\ OwnedBy(b, u) }
           processed_pos == { po \in db_processed_pos :
                                 po.price_book_id = price_book_id /\ po.user_id = u }
       IN  IF found = {}
           THEN /\ response' = ErrorResponse(404)
                /\ UNCHANGED db_vars
           ELSE /\ db_po_line_items' =
                       SelectSeq(db_po_line_items,
                                 LAMBDA item : \A po \in processed_pos : item.processed_po_id # po.id)
                /\ db_processed_pos' = db_processed_pos \ processed_pos
                /\ db_price_items' = [db_price_items EXCEPT ![price_book_id] = <<>>]
                /\ db_price_books' = db_price_books \ found
                /\ response' = Deleted
                /\ UNCHANGED db_users
    /\ UNCHANGED po_id_seq
    /\ AppUnchanged

\* POST /api/process-po, from the request to the response.
ProcessPurchaseOrder(u, price_book_id, data) ==
    /\ LoggedIn(u)
    /\ request' = Request("process-po", u, price_book_id, 0)
    /\ LET found == { b \in db_price_books : b.id = price_book_id }
       IN  IF found = {}
           THEN /\ response' = ErrorResponse(404)
                /\ UNCHANGED <<db_vars, po_id_seq>>
           ELSE IF \E b \in found : ~OwnedBy(b, u)
           THEN /\ response' = ErrorResponse(403)
                /\ UNCHANGED <<db_vars, po_id_seq>>
           ELSE \E order \in Orderings({ db_price_items[price_book_id][i].model_number :
                                             i \in DOMAIN db_price_items[price_book_id] }) :
                  LET compared == CompareWithPriceBook(data, db_price_items[price_book_id], order)
                  IN  IF compared.raised
                      THEN /\ response' = ErrorResponse(500)
                           /\ UNCHANGED <<db_vars, po_id_seq>>
                      ELSE /\ po_id_seq < MaxPOs
                           /\ po_id_seq' = po_id_seq + 1
                           /\ IF LineItemsRaise(compared.results)
                              THEN /\ response' = ErrorResponse(500)
                                   /\ UNCHANGED db_vars
                              ELSE /\ db_processed_pos' = db_processed_pos \cup
                                          {ProcessedPO(po_id_seq + 1, PoFile, price_book_id, u)}
                                   /\ db_po_line_items' = db_po_line_items \o
                                          NewLineItems(po_id_seq + 1, compared.results)
                                   /\ response' = SuccessResponse(compared.results)
                                   /\ UNCHANGED <<db_users, db_price_books, db_price_items>>
    /\ AppUnchanged

\* POST /admin/toggle-admin/<user_id>
ToggleAdmin(u, user_id) ==
    /\ LoggedIn(u)
    /\ request' = Request("toggle-admin", u, "", user_id)
    /\ IF ~CurrentUser(u).is_admin
       THEN /\ response' = Redirect("danger")
            /\ UNCHANGED db_users
       ELSE IF ~LoggedIn(user_id)
       THEN /\ response' = ErrorResponse(404)
            /\ UNCHANGED db_users
       ELSE IF IsSelf(user_id, u)
       THEN /\ response' = Redirect("warning")
            /\ UNCHANGED db_users
       ELSE /\ db_users' = { IF user.id = user_id
                              THEN [user EXCEPT !.is_admin = ~user.is_admin] ELSE user :
                              user \in db_users }
            /\ response' = Redirect("success")
    /\ UNCHANGED <<db_price_books, db_price_items, db_processed_pos, db_po_line_items, po_id_seq>>
    /\ AppUnchanged

\* POST /admin/delete-user/<user_id>. The two bulk deletes do not cascade to
\* the line items and the price items: a database that enforces their foreign
\* keys refuses the delete (the exception is caught and the session rolled
\* back), one that does not leaves them behind.
DeleteUser(u, user_id) ==
    /\ LoggedIn(u)
    /\ request' = Request("delete-user", u, "", user_id)
    /\ IF ~CurrentUser(u).is_admin
       THEN /\ response' = Redirect("danger")
            /\ UNCHANGED db_vars
       ELSE IF ~LoggedIn(user_id)
       THEN /\ response' = ErrorResponse(404)
            /\ UNCHANGED db_vars
       ELSE IF IsSelf(user_id, u)
       THEN /\ response' = Redirect("warning")
            /\ UNCHANGED db_vars
       ELSE LET processed_pos == { po \in db_processed_pos : po.user_id = user_id }
                price_books == { b \in db_price_books : b.user_id = user_id }
                referenced ==
                    \/ \E po \in processed_pos : \E i \in DOMAIN db_po_line_items :
                           db_po_line_items[i].processed_po_id = po.id
                    \/ \E b \in price_books : db_price_items[b.id] # <<>>
            IN  \/ /\ db_processed_pos' = db_processed_pos \ processed_pos
                   /\ db_price_books' = db_price_books \ price_books
                   /\ db_users' = { user \in db_users : user.id # user_id }
                   /\ response' = Redirect("success")
                   /\ UNCHANGED <<db_price_items, db_po_line_items>>
                \/ /\ referenced
                   /\ response' = Redirect("danger")
                   /\ UNCHANGED db_vars
    /\ UNCHANGED po_id_seq
    /\ AppUnchanged

NextApp ==
    \/ \E u \in UserIds : GetPriceBooks(u)
    \/ \E u \in UserIds, b \in PriceBookIds : DeletePriceBook(u, b)
    \/ \E u \in UserIds, b \in PriceBookIds, data \in AppBatches : ProcessPurchaseOrder(u, b, data)
    \/ \E u \in UserIds, user_id \in UserIds : ToggleAdmin(u, user_id)
    \/ \E u \in UserIds, user_id \in UserIds : DeleteUser(u, user_id)
SpecApp == InitApp /\ [][NextApp]_vars

\* ================================================================== claims

Statuses == {"Match", "Mismatch", "Model Not Found", "Data Extraction Issue",
             "Price Format Error"}
HasNumericPrice(item) == item.pk \in {"num", "str"}

\* C1: for every batch of N lines and every price book the function returns
\* exactly N results, the i-th belonging to the i-th line with
\* po_line_number = i, and no line aborts the batch (no exception leaves the
\* loop).
C1_OneResultPerLine ==
    /\ pc # "raised"
    /\ pc = "done" =>
        /\ Len(results) = Len(extracted_data)
        /\ \A i \in DOMAIN results :
            /\ results[i].po_line_number = i
            /\ results[i].po_price = GetPrice(extracted_data[i])

\* C2: a line with a numeric price whose raw model is exactly a key of the
\* index has status Match if its price equals the price stored under that key
\* and Mismatch otherwise, also for keys that begin with B or BW.
C2_ExactKeyMatchIffPriceEqual ==
    \A i \in DOMAIN results :
        LET item == extracted_data[i]
        IN  (HasNumericPrice(item) /\ item.mk = "str" /\ InDict(price_items_dict, item.model))
            => results[i].status =
                   IF item.price = DictGet(price_items_dict, item.model).price
                   THEN "Match" ELSE "Mismatch"

\* C3: the status of every result is one of Match, Mismatch, Model Not Found,
\* Data Extraction Issue, Price Format Error.
C3_StatusIsOneOfFive ==
    \A i \in DOMAIN results : results[i].status \in Statuses

\* C4: once the index is built, every model number of the price book has
\* exactly one entry, and it carries the price, excel_row and source_column
\* ("Unknown" when the row has none) of the first row with that model number;
\* every later row with the same model number is ignored and logged as a
\* warning, in row order; a price book without rows gives the empty index.
LaterDuplicates == { i \in DOMAIN price_items :
    \E j \in 1..(i - 1) : price_items[j].model_number = price_items[i].model_number }
FirstRow(m) ==
    price_items[SetMin({ i \in DOMAIN price_items : price_items[i].model_number = m })]
C4_IndexKeepsFirstOccurrence ==
    pc # "start" =>
        /\ \A i \in DOMAIN price_items :
            LET first == FirstRow(price_items[i].model_number)
            IN  \E j \in DOMAIN price_items_dict :
                    /\ price_items_dict[j].model_number = first.model_number
                    /\ price_items_dict[j].price = first.price
                    /\ price_items_dict[j].excel_row = first.excel_row
                    /\ price_items_dict[j].source_column =
                           IF first.source_column \in {<<>>, <<"">>}
                           THEN <<"Unknown">> ELSE first.source_column
        /\ \A j, k \in DOMAIN price_items_dict :
            price_items_dict[j].model_number = price_items_dict[k].model_number => j = k
        /\ \A j \in DOMAIN price_items_dict :
            \E i \in DOMAIN price_items :
                price_items[i].model_number = price_items_dict[j].model_number
        /\ Len(warnings) = Cardinality(LaterDuplicates)
        /\ \A w \in DOMAIN warnings :
            \E i \in LaterDuplicates :
                /\ Cardinality({ j \in LaterDuplicates : j <= i }) = w
                /\ warnings[w].model_number = price_items[i].model_number
                /\ warnings[w].excel_row = price_items[i].excel_row
        /\ price_items = <<>> => price_items_dict = <<>>

\* C4 witness: an index built from a book whose second row repeats the model
\* number of the first with another excel_row, and the warning logged.
C4_DuplicateIgnored ==
    /\ pc # "start"
    /\ Len(price_items) >= 2
    /\ price_items[1].model_number = price_items[2].model_number
    /\ price_items[1].excel_row # price_items[2].excel_row
    /\ price_items[1].source_column = <<>>
    /\ Len(price_items_dict) = 1
    /\ Len(warnings) >= 1

\* What the cascade's stages mean for a candidate c and the keys of the index,
\* stated on strings alone.
KeysOfIndex == DictKeys(price_items_dict)
IsKey(c) == c \in KeysOfIndex
IsKeyAfterBW(c) == Len(c) >= 2 /\ c[1] = "B" /\ c[2] = "W" /\ SubSeq(c, 3, Len(c)) \in KeysOfIndex
IsKeyAfterB(c) ==
    /\ Len(c) >= 1 /\ c[1] = "B" /\ ~(Len(c) >= 2 /\ c[2] = "W")
    /\ SubSeq(c, 2, Len(c)) \in KeysOfIndex
\* The candidate itself, or the candidate without its BW prefix, or without
\* its B prefix when that is not a BW prefix.
PrefixVariants(c) ==
    {c} \cup (IF Len(c) >= 2 /\ c[1] = "B" /\ c[2] = "W" THEN {SubSeq(c, 3, Len(c))}
              ELSE IF Len(c) >= 1 /\ c[1] = "B" THEN {SubSeq(c, 2, Len(c))}
              ELSE {})
SameButDashes(v, k) == RemoveDashes(v) = RemoveDashes(k)
IsKeyUpToDashes(c) == \E v \in PrefixVariants(c), k \in KeysOfIndex : SameButDashes(v, k)
\* The positions of the candidates that succeed in each stage.
ExactAt(cands) == { j \in DOMAIN cands : IsKey(cands[j]) }
BWAt(cands) == { j \in DOMAIN cands : IsKeyAfterBW(cands[j]) }
BAt(cands) == { j \in DOMAIN cands : IsKeyAfterB(cands[j]) }
DashAt(cands) == { j \in DOMAIN cands : IsKeyUpToDashes(cands[j]) }
\* The lines the cascade ran for: those with a price.
ComparedLines == { i \in DOMAIN results : extracted_data[i].pk # "absent" }
EntryOf(k) == DictGet(price_items_dict, k)
\* The result carries the price, row and source column of the index entry of k.
PricedFrom(r, k) ==
    /\ r.book_price = <<EntryOf(k).price>>
    /\ r.price_book_row = EntryOf(k).excel_row
    /\ r.source_column = EntryOf(k).source_column

\* C5: the cascade is stage-major: the line is decided by the earliest stage
\* in which some candidate succeeds, and the model shown is the first candidate
\* of the list that succeeds in that stage; when none succeeds in any stage the
\* line is Model Not Found.
C5_StageMajor ==
    \A i \in ComparedLines :
        LET cands == decisions[i].unique_models
            r == results[i]
        IN  IF ExactAt(cands) # {}
            THEN decisions[i].step = 1 /\ r.model = cands[SetMin(ExactAt(cands))]
            ELSE IF BWAt(cands) # {}
            THEN decisions[i].step = 2 /\ r.model = cands[SetMin(BWAt(cands))]
            ELSE IF BAt(cands) # {}
            THEN decisions[i].step = 3 /\ r.model = cands[SetMin(BAt(cands))]
            ELSE IF DashAt(cands) # {}
            THEN decisions[i].step = 4 /\ r.model = cands[SetMin(DashAt(cands))]
            ELSE decisions[i].step = 0 /\ r.status = "Model Not Found"

\* C5 witness: a line whose first candidate would match by prefix stripping or
\* dash removal and is passed over for a later candidate that matches exactly.
C5_LaterExactWins ==
    \E i \in ComparedLines :
        LET cands == decisions[i].unique_models
        IN  /\ Len(cands) >= 2
            /\ ~IsKey(cands[1])
            /\ IsKeyAfterBW(cands[1]) \/ IsKeyAfterB(cands[1]) \/ IsKeyUpToDashes(cands[1])
            /\ decisions[i].step = 1
            /\ results[i].model # cands[1]

\* C6: when no candidate is a key and some candidate starts with BW and is a
\* key once those two characters are removed, the line is matched in the BW
\* stage: the model shown is the first such candidate, unchanged, and
\* book_price, price_book_row and source_column are those of the index entry
\* of the candidate without BW.
C6_BWPrefixStage ==
    \A i \in ComparedLines :
        LET cands == decisions[i].unique_models
            c == cands[SetMin(BWAt(cands))]
        IN  (ExactAt(cands) = {} /\ BWAt(cands) # {}) =>
                /\ decisions[i].step = 2
                /\ results[i].model = c
                /\ results[i].status \in {"Match", "Mismatch", "Price Format Error"}
                /\ PricedFrom(results[i], SubSeq(c, 3, Len(c)))

\* C6 witness: a line matched in the BW stage at a price other than the book's.
C6_BWMatched ==
    \E i \in ComparedLines :
        /\ decisions[i].step = 2
        /\ results[i].status = "Mismatch"
        /\ results[i].model = BWA111
        /\ results[i].book_price = <<EntryOf(A111).price>>

\* C7: when no candidate succeeds in the exact or the BW stage, a candidate
\* that starts with B but not BW and is a key once that character is removed
\* is matched in the B stage, shown unchanged and priced from the stripped
\* key; and a model that starts with BW is never matched in the B stage nor
\* priced from the key that removing only its B would give.
C7_BPrefixStage ==
    \A i \in ComparedLines :
        LET cands == decisions[i].unique_models
            c == cands[SetMin(BAt(cands))]
            shown == results[i].model
        IN  /\ (ExactAt(cands) = {} /\ BWAt(cands) = {} /\ BAt(cands) # {}) =>
                /\ decisions[i].step = 3
                /\ results[i].model = c
                /\ results[i].status \in {"Match", "Mismatch", "Price Format Error"}
                /\ PricedFrom(results[i], SubSeq(c, 2, Len(c)))
            /\ (decisions[i].step # 0 /\ Len(shown) >= 2 /\ shown[1] = "B" /\ shown[2] = "W") =>
                /\ decisions[i].step # 3
                /\ decisions[i].lookup_model # <<SubSeq(shown, 2, Len(shown))>>

\* C7 witness: a line matched in the B stage, and in the same price book a key
\* that a BW-prefixed model would reach by dropping only its B.
C7_BMatched ==
    \E i \in ComparedLines :
        /\ decisions[i].step = 3
        /\ results[i].model = BADash111
        /\ results[i].book_price # <<>>
        /\ WA111 \in KeysOfIndex

C8_LatestOfTwoKeys ==
    \E i \in ComparedLines :
        /\ decisions[i].step = 4
        /\ results[i].model = A1Dash11
        /\ {A111, ADash111} \subseteq KeysOfIndex
        /\ EntryOf(A111).price # EntryOf(ADash111).price

\* C9: when no candidate succeeds in an earlier stage and some candidate, or
\* its BW- or B-stripped variant, equals an index key once dashes are removed
\* from both, the line is matched in the dash stage: the model shown is the
\* first such candidate, unchanged, and book_price, price_book_row and
\* source_column are those of an index key that equals the variant up to
\* dashes; with the single key A-111 at price 1, the PO model A111 at price 1
\* is a Match with book_price 1.
C9_DashRemovalStage ==
    \A i \in ComparedLines :
        LET cands == decisions[i].unique_models
            c == cands[SetMin(DashAt(cands))]
        IN  /\ (/\ ExactAt(cands) = {} /\ BWAt(cands) = {}
                /\ BAt(cands) = {} /\ DashAt(cands) # {}) =>
                    /\ decisions[i].step = 4
                    /\ results[i].model = c
                    /\ results[i].status \in {"Match", "Mismatch", "Price Format Error"}
                    /\ \E v \in PrefixVariants(c), k \in KeysOfIndex :
                           /\ SameButDashes(v, k)
                           /\ decisions[i].lookup_model = <<k>>
                           /\ PricedFrom(results[i], k)
            /\ (/\ KeysOfIndex = {ADash111} /\ EntryOf(ADash111).price = 1
                /\ extracted_data[i].model = A111 /\ extracted_data[i].dk = "absent"
                /\ extracted_data[i].pk = "num" /\ extracted_data[i].price = 1) =>
                    /\ results[i].status = "Match"
                    /\ results[i].book_price = <<1>>
                    /\ results[i].model = A111

\* C9 witness: the PO model A111 matched by dash removal to the key A-111.
C9_DashMatched ==
    \E i \in ComparedLines :
        /\ decisions[i].step = 4
        /\ results[i].model = A111
        /\ decisions[i].lookup_model = <<ADash111>>
        /\ results[i].status = "Match"

\* C10: in every result a discrepancy is present exactly when the status is
\* Mismatch, and then it is the absolute difference of the PO price and the
\* book price, which is not negative.
C10_DiscrepancyIffMismatch ==
    \A i \in DOMAIN results :
        LET r == results[i]
        IN  /\ r.discrepancy # <<>> <=> r.status = "Mismatch"
            /\ r.status = "Mismatch" =>
                /\ r.book_price # <<>>
                /\ r.po_price.k \in {"num", "str"}
                /\ r.discrepancy[1] >= 0
                /\ \/ r.discrepancy[1] = r.po_price.n - r.book_price[1]
                   \/ r.discrepancy[1] = r.book_price[1] - r.po_price.n

\* C10 witness: a Mismatch whose PO price is below the book price, and one
\* whose PO price is above it.
C10_MismatchBothWays ==
    /\ \E i \in DOMAIN results :
        /\ results[i].status = "Mismatch"
        /\ results[i].po_price.n < results[i].book_price[1]
        /\ results[i].discrepancy[1] > 0
    /\ \E i \in DOMAIN results :
        /\ results[i].status = "Mismatch"
        /\ results[i].po_price.n > results[i].book_price[1]

\* C11: in every result error_value is the discrepancy multiplied by the
\* line's quantity (1 when the line has none) when the status is Mismatch, and
\* 0 for every other status.
C11_ErrorValueLinear ==
    \A i \in DOMAIN results :
        LET r == results[i]
            quantity == GetQuantity(extracted_data[i])
        IN  IF r.status = "Mismatch"
            THEN /\ r.discrepancy # <<>>
                 /\ quantity.k \in {"num", "str"}
                 /\ r.error_value = r.discrepancy[1] * quantity.n
            ELSE r.error_value = 0

\* C11 witness: a Mismatch on a line whose quantity is more than 1, so that
\* error_value differs from the discrepancy.
C11_MismatchWithQuantity ==
    \E i \in DOMAIN results :
        /\ results[i].status = "Mismatch"
        /\ extracted_data[i].qk = "num"
        /\ extracted_data[i].quantity > 1
        /\ results[i].error_value > results[i].discrepancy[1]

\* C12: a matched line whose PO price and book price parse, and whose quantity
\* is absent or does not parse as a number, is classified by the price
\* comparison alone, Match or Mismatch, the quantity counting as 1: for a
\* Mismatch error_value is the discrepancy.
C12_BadQuantityCountsAsOne ==
    \A i \in DOMAIN results :
        LET r == results[i]
            item == extracted_data[i]
        IN  (/\ r.book_price # <<>>
             /\ HasNumericPrice(item)
             /\ item.qk \in {"absent", "bad", "null"}) =>
                /\ r.status = IF item.price = r.book_price[1] THEN "Match" ELSE "Mismatch"
                /\ r.status = "Mismatch" => r.error_value = r.discrepancy[1]

\* C13: in every result book_price, price_book_row and source_column are all
\* set when the cascade matched the line, and all absent or null when it did
\* not or when the line has no price.
C13_BookFieldsIffMatched ==
    \A i \in DOMAIN results :
        LET r == results[i]
        IN  IF decisions[i].step # 0
            THEN r.book_price # <<>> /\ r.price_book_row # <<>> /\ r.source_column # <<>>
            ELSE r.book_price = <<>> /\ r.price_book_row = <<>> /\ r.source_column = <<>>

\* C14: a line without a price has status Data Extraction Issue whatever the
\* price book holds: it gets no candidates and no match, no book_price and no
\* discrepancy, error_value 0, and it shows the raw model, or "Unknown Item"
\* when the raw model is absent, null or empty.
C14_NoPriceIsExtractionIssue ==
    \A i \in DOMAIN results :
        LET r == results[i]
            item == extracted_data[i]
        IN  item.pk = "absent" =>
                /\ r.status = "Data Extraction Issue"
                /\ decisions[i].unique_models = <<>>
                /\ decisions[i].step = 0
                /\ r.book_price = <<>> /\ r.price_book_row = <<>>
                /\ r.discrepancy = <<>>
                /\ r.error_value = 0
                /\ r.model = IF item.mk = "str" /\ Len(item.model) > 0 THEN item.model
                             ELSE IF item.mk = "num" THEN NumModel
                             ELSE <<"Unknown Item">>

\* C14 witness: a batch with a line without a price whose model is a key of
\* the index, and a line without a price and without a model.
C14_NoPriceKnownModel ==
    /\ \E i \in DOMAIN results :
        /\ extracted_data[i].pk = "absent"
        /\ extracted_data[i].mk = "str"
        /\ extracted_data[i].model \in KeysOfIndex
        /\ results[i].model = extracted_data[i].model
    /\ \E i \in DOMAIN results :
        /\ extracted_data[i].pk = "absent"
        /\ extracted_data[i].mk \in {"null", "str"}
        /\ extracted_data[i].model = <<>>
        /\ results[i].model = <<"Unknown Item">>

\* C15: a line that has a price and that no candidate matches in any stage is
\* Model Not Found, also when its price does not parse as a number; and Price
\* Format Error is the status only of lines that were matched and whose PO
\* price does not parse (the book price, a float column, always does).
C15_NotFoundBeforeFormatError ==
    \A i \in DOMAIN results :
        LET r == results[i]
            item == extracted_data[i]
        IN  /\ (item.pk # "absent" /\ decisions[i].step = 0) => r.status = "Model Not Found"
            /\ r.status = "Price Format Error" =>
                    /\ decisions[i].step # 0
                    /\ FloatRaises(GetPrice(item))

ResultsUnder(order) ==
    [i \in DOMAIN results |->
        CompareLine(extracted_data[i], i, price_items_dict, order).result]

\* C17: a second run on the same price book and the same lines gives the same
\* result list and the same report text, whatever the order in which the set
\* of price-book model numbers is iterated in that run.
C17_SameOutcomeInEveryOrder ==
    \A order \in Orderings({ price_book_model_numbers[j] : j \in DOMAIN price_book_model_numbers }) :
        /\ ResultsUnder(order) = results
        /\ pc = "reported" => GenerateEmailReport(ResultsUnder(order), PoNumber) = email_text

\* The report read back: the positions where a per-line entry starts, the
\* results that are problem items, and the n-th of a set of numbers.
EntryStarts == { k \in DOMAIN email_text : email_text[k] = "PO Line " }
ProblemResults == { i \in DOMAIN results : results[i].status \in {"Mismatch", "Model Not Found"} }
NthOf(S, n) == CHOOSE x \in S : Cardinality({ y \in S : y <= x }) = n
\* The text from position k up to, not including, the next line break.
EntryAt(k) ==
    SubSeq(email_text, k,
           SetMin({ e \in k..Len(email_text) : email_text[e] = "\n" }) - 1)
\* What an entry for the result r starts with.
EntryHead(r) ==
    <<"PO Line ">> \o Str(r.po_line_number) \o <<" - ">> \o r.model
        \o <<(IF r.status = "Mismatch" THEN " - PO Price "
              ELSE " - Model not found in price book")>>
IsPrefixOf(p, t) == Len(p) <= Len(t) /\ SubSeq(t, 1, Len(p)) = p

\* C18: the report has exactly one per-line entry for each result that is a
\* Mismatch or a Model Not Found and none for any other result; the entries
\* come in the order of the lines and the n-th entry names the PO line number
\* and the model of the n-th such result.
C18_OneEntryPerProblemItem ==
    pc = "reported" =>
        /\ Cardinality(EntryStarts) = Cardinality(ProblemResults)
        /\ \A n \in 1..Cardinality(ProblemResults) :
            LET r == results[NthOf(ProblemResults, n)]
            IN  /\ r.po_line_number = NthOf(ProblemResults, n)
                /\ IsPrefixOf(EntryHead(r), EntryAt(NthOf(EntryStarts, n)))

\* C18 witness: a report on a batch whose first line is a Match and whose
\* second line is a Mismatch, the only entry being that of PO line 2.
C18_SecondLineReported ==
    /\ pc = "reported"
    /\ Len(results) = 2
    /\ results[1].status = "Match"
    /\ results[2].status = "Mismatch"
    /\ Cardinality(EntryStarts) = 1
    /\ \E k \in EntryStarts : email_text[k + 1] = "2"

\* C19: the report contains the full-agreement sentence exactly when no result
\* is a Mismatch or a Model Not Found, and then it has no per-line entry; in
\* both cases the report ends with the closing line.
C19_AgreementIffNoProblems ==
    pc = "reported" =>
        /\ (\E k \in DOMAIN email_text : email_text[k] = AgreementSentence)
               <=> ProblemResults = {}
        /\ ProblemResults = {} => EntryStarts = {}
        /\ Cardinality({ k \in DOMAIN email_text : email_text[k] = AgreementSentence }) <= 1
        /\ Len(email_text) >= 3
        /\ SubSeq(email_text, Len(email_text) - 2, Len(email_text)) = <<"\n", ClosingLine, "\n">>

\* C19 witness: a report on a batch of two lines without a problem item, one
\* of them not a Match, that has the agreement sentence and the closing line.
C19_AgreementReported ==
    /\ pc = "reported"
    /\ Len(results) = 2
    /\ ProblemResults = {}
    /\ \E i \in DOMAIN results : results[i].status # "Match"
    /\ \E k \in DOMAIN email_text : email_text[k] = AgreementSentence
    /\ email_text[Len(email_text) - 1] = ClosingLine

\* A report with per-line entries, without the agreement sentence and with the
\* closing line.
C19_ProblemsReported ==
    /\ pc = "reported"
    /\ ProblemResults # {}
    /\ \A k \in DOMAIN email_text : email_text[k] # AgreementSentence
    /\ email_text[Len(email_text) - 1] = ClosingLine

\* C20: every report line of a Mismatch holds the PO price, the book price and
\* then, in parentheses, the provenance of the price-book entry: its row when
\* the row is known, its source column otherwise.
C20_MismatchLineHasProvenance ==
    pc = "reported" =>
        \A n \in 1..Cardinality(ProblemResults) :
            LET r == results[NthOf(ProblemResults, n)]
                entry == EntryAt(NthOf(EntryStarts, n))
                prices == EntryHead(r) \o FormatPrice(r.po_price)
                              \o <<" - Price Book ">> \o BookPriceText(r.book_price)
            IN  r.status = "Mismatch" =>
                    /\ IsPrefixOf(prices, entry)
                    /\ entry = prices \o
                           (IF r.price_book_row # <<>>
                            THEN <<" (Row ">> \o Str(r.price_book_row[1]) \o <<")">>
                            ELSE <<" (", r.source_column[1], ")">>)

\* The patterns as languages: what a whole match of pattern k may read, with
\* the case of letters folded: a head and then digits.
FoldCase(t) == [x \in DOMAIN t |-> CaseFold(t[x])]
OptSep == {<<>>, <<"-">>, <<"_">>}
PatternHeads(k) ==
    IF k = 1 THEN {<<"P">>}
    ELSE IF k = 2 THEN { <<"P", "O">> \o a : a \in OptSep }
    ELSE IF k = 3
    THEN { <<"P", "U", "R", "C", "H", "A", "S", "E">> \o a \o <<"O", "R", "D", "E", "R">> \o b :
             a \in OptSep, b \in OptSep }
    ELSE IF k = 4 THEN { <<"O", "R", "D", "E", "R">> \o a : a \in OptSep }
    ELSE {<<>>}
AllDigits(t) == \A x \in DOMAIN t : t[x] \in {"0", "1", "2", "3", "4", "5", "6", "7", "8", "9"}
\* The positions e such that s reads a head of pattern k from position i up to
\* e - 1 and a digit at e (five digits for the pattern without a head).
HeadEnds(k, s, i) ==
    { e \in i..Len(s) :
        /\ \E h \in PatternHeads(k) :
               e = i + Len(h) /\ FoldCase(SubSeq(s, i, e - 1)) = h
        /\ LET need == IF k = 5 THEN 5 ELSE 1
           IN  e + need - 1 <= Len(s) /\ AllDigits(SubSeq(s, e, e + need - 1)) }
\* Some match of pattern k starts at position i of s.
MatchStartsAt(k, s, i) == HeadEnds(k, s, i) # {}
\* From position e on, s reads z zeros, then the digits c, then no digit.
ReadsZerosThen(s, e, z, c) ==
    /\ e + z + Len(c) - 1 <= Len(s)
    /\ \A x \in e..(e + z - 1) : s[x] = "0"
    /\ Len(c) >= 1 /\ AllDigits(c)
    /\ SubSeq(s, e + z, e + z + Len(c) - 1) = c
    /\ e + z + Len(c) > Len(s) \/ ~AllDigits(<<s[e + z + Len(c)]>>)
PatternMatches(k, s) == \E i \in DOMAIN s : MatchStartsAt(k, s, i)
FileStem == SplitextRoot(Basename(filename))

\* C21: the PO number is taken from the stem of the filename by the first of
\* the five patterns, in the order P, PO, Purchase Order, Order, five digits,
\* that matches anywhere in the stem: it is the digits that pattern captures
\* in its leftmost match, the longest run of digits there without the leading
\* zeros that 0* takes; when no pattern matches it is the stem itself.
C21_FirstPatternInOrder ==
    po_number # None =>
        LET s == FileStem
            c == po_number[1]
            hits == { k \in 1..5 : PatternMatches(k, s) }
            k == SetMin(hits)
            i == SetMin({ x \in DOMAIN s : MatchStartsAt(k, s, x) })
        IN  IF hits = {} THEN c = s
            ELSE \E e \in HeadEnds(k, s, i), z \in 0..Len(s) :
                    /\ ReadsZerosThen(s, e, z, c)
                    /\ k = 5 => z = 0
                    /\ k # 5 => (Len(c) = 1 \/ c[1] # "0")

\* C21 witness: a filename with a directory and an extension in whose stem the
\* patterns P and PO both match with different digits, P giving the number.
C21_EarlierPatternWins ==
    /\ po_number # None
    /\ Basename(filename) # filename
    /\ FileStem # Basename(filename)
    /\ PatternMatches(1, FileStem) /\ PatternMatches(2, FileStem)
    /\ PatternSearch(2, FileStem) # PatternSearch(1, FileStem)
    /\ po_number = PatternSearch(1, FileStem)

\* A filename in whose stem no pattern matches, the stem being the number.
C21_StemReturned ==
    /\ po_number # None
    /\ \A k \in 1..5 : ~PatternMatches(k, FileStem)
    /\ FileStem # filename
    /\ po_number = Some(FileStem)

\* The sources of the candidates of line i: the raw model, the pattern tokens
\* of the description, the known model numbers found in it, the BW tokens.
RawCandidate(i) ==
    IF extracted_data[i].mk = "str" /\ Len(extracted_data[i].model) > 0
    THEN <<extracted_data[i].model>> ELSE <<>>
DescriptionOf(i) ==
    IF extracted_data[i].dk = "str" THEN extracted_data[i].description ELSE <<>>
PatternTokens(i) == FindModelPatterns(DescriptionOf(i), 1)
KnownInDescription(i) ==
    SelectSeq(price_book_model_numbers, LAMBDA m : IsSubstring(m, DescriptionOf(i)))
BWTokens(i) == FindBWPatterns(DescriptionOf(i), 1)
FirstPlace(x, list) == SetMin({ j \in DOMAIN list : list[j] = x })
\* cands is the list all with every repetition after the first left out.
IsFirstOccurrencesOf(cands, all) ==
    /\ \A a, b \in DOMAIN cands : cands[a] = cands[b] => a = b
    /\ { cands[a] : a \in DOMAIN cands } = { all[j] : j \in DOMAIN all }
    /\ \A a, b \in DOMAIN cands :
           a < b => FirstPlace(cands[a], all) < FirstPlace(cands[b], all)

\* C22 as stated: the candidates of a line are, without repetition, the raw
\* model when it is not empty, then the pattern tokens of the description from
\* left to right, then the price-book model numbers that are substrings of the
\* description, and nothing else.
C22_CandidatesFromThreeSources ==
    \A i \in ComparedLines :
        IsFirstOccurrencesOf(decisions[i].unique_models,
            RawCandidate(i) \o PatternTokens(i) \o KnownInDescription(i))

\* C22 as amended: the same with a fourth source after the known model
\* numbers: the tokens of the description that the BW pattern finds.
C22_CandidatesFromFourSources ==
    \A i \in ComparedLines :
        IsFirstOccurrencesOf(decisions[i].unique_models,
            RawCandidate(i) \o PatternTokens(i) \o KnownInDescription(i) \o BWTokens(i))

\* C22 witness: a line whose raw model is also a token of its description,
\* with a known model number in the description, the raw model being a
\* candidate once.
C22_RepeatedCandidate ==
    \E i \in ComparedLines :
        /\ RawCandidate(i) # <<>>
        /\ \E j \in DOMAIN PatternTokens(i) : PatternTokens(i)[j] = RawCandidate(i)[1]
        /\ KnownInDescription(i) # <<>>
        /\ Len(decisions[i].unique_models) >= 3

\* A line with a candidate that only the BW pattern finds.
C22_BWTokenOnly ==
    \E i \in ComparedLines :
        \E j \in DOMAIN BWTokens(i) :
            /\ \A x \in DOMAIN PatternTokens(i) : PatternTokens(i)[x] # BWTokens(i)[j]
            /\ \E x \in DOMAIN decisions[i].unique_models :
                   decisions[i].unique_models[x] = BWTokens(i)[j]

\* A word of letters of one case only.
IsPlainWord(t) ==
    \/ \A x \in DOMAIN t : t[x] \in Upper
    \/ \A x \in DOMAIN t : t[x] \in Lower
\* A hyphen, or letters and digits, or letters of both cases.
LooksLikePartNumber(t) ==
    \/ \E x \in DOMAIN t : t[x] = "-"
    \/ (\E x \in DOMAIN t : t[x] \in Digits) /\ (\E x \in DOMAIN t : t[x] \in Upper \cup Lower)
    \/ (\E x \in DOMAIN t : t[x] \in Upper) /\ (\E x \in DOMAIN t : t[x] \in Lower)

\* C23: every token that the pattern takes from a description has at least 6
\* characters and holds a hyphen, or letters and digits, or letters of both
\* cases; a word of letters of one case is no candidate, and no line is
\* matched on such a word by prefix stripping.
C23_TokensLookLikePartNumbers ==
    \A i \in ComparedLines :
        /\ \A j \in DOMAIN PatternTokens(i) :
               /\ Len(PatternTokens(i)[j]) >= 6
               /\ LooksLikePartNumber(PatternTokens(i)[j])
        /\ \A j \in DOMAIN decisions[i].unique_models :
               ~IsPlainWord(decisions[i].unique_models[j])
        /\ decisions[i].step \in {2, 3, 4} => ~IsPlainWord(results[i].model)

\* C24: a line matched in the exact stage by a candidate is priced from the
\* index entry stored under that candidate: the key looked up is the candidate
\* as it is, book_price, price_book_row and source_column are those of its
\* entry, and the line does not end in a lookup failure.
C24_ExactMatchPricedFromItself ==
    \A i \in ComparedLines :
        decisions[i].step = 1 =>
            /\ decisions[i].lookup_model = <<results[i].model>>
            /\ results[i].status # "Lookup Error"
            /\ PricedFrom(results[i], results[i].model)

\* The dash-free form through which the dash stage matched candidate c: that
\* of c itself when some key has it, else that of c without its prefix.
DashFormsOfIndex == { RemoveDashes(k) : k \in KeysOfIndex }
MatchedForm(c) ==
    IF RemoveDashes(c) \in DashFormsOfIndex THEN RemoveDashes(c)
    ELSE CHOOSE d \in DashFormsOfIndex : \E v \in PrefixVariants(c) : RemoveDashes(v) = d
\* The positions in the index of the keys of dash-free form d.
KeysOfForm(d) ==
    { j \in DOMAIN price_items_dict : RemoveDashes(price_items_dict[j].model_number) = d }

\* C27: a line matched in the dash stage through a dash-free form is priced
\* from the key of that form that is last in the insertion order of the index,
\* also when several distinct keys have the form.
C27_DashMatchPricedFromLastKey ==
    \A i \in ComparedLines :
        decisions[i].step = 4 =>
            LET same == KeysOfForm(MatchedForm(results[i].model))
                last == price_items_dict[SetMax(same)]
            IN  /\ decisions[i].lookup_model = <<last.model_number>>
                /\ results[i].book_price = <<last.price>>
                /\ results[i].price_book_row = last.excel_row
                /\ results[i].source_column = last.source_column

\* Two keys of one dash-free form with different prices, and a line matched in
\* the dash stage that carries the price of the later and not of the earlier.
C27_TwoKeysOfOneForm ==
    \E i \in ComparedLines :
        /\ decisions[i].step = 4
        /\ LET same == KeysOfForm(MatchedForm(results[i].model))
           IN  /\ Cardinality(same) >= 2
               /\ results[i].book_price = <<price_items_dict[SetMax(same)].price>>
               /\ results[i].book_price # <<price_items_dict[SetMin(same)].price>>

\* The rows of the spreadsheet that parse_excel_file reads a price for model m
\* from.
PricedRowsOf(m) ==
    { i \in DOMAIN excel_file.rows : excel_file.rows[i].a = m /\ HasRowPrice(excel_file.rows[i]) }
UploadedModels ==
    { excel_file.rows[i].a : i \in DOMAIN excel_file.rows } \ {<<>>, <<"nan">>}

\* C26: a model number that has a price on one or several rows of the
\* spreadsheet is stored, and indexed for the reconciliation, with the price,
\* the source column and the Excel row of the first of these rows.
C26_FirstSpreadsheetRowWins ==
    pc \in {"lines", "done", "reported"} =>
        \A m \in UploadedModels :
            PricedRowsOf(m) # {} =>
                LET first == SetMin(PricedRowsOf(m))
                    row == excel_file.rows[first]
                IN  /\ InDict(price_items_dict, m)
                    /\ EntryOf(m).price = RowPrice(row)
                    /\ EntryOf(m).excel_row = Some(first + 1)
                    /\ EntryOf(m).source_column = Some(RowColumn(excel_file.header, row))

\* The line items stored for the ProcessedPO row of id n.
LineItemsOf(n) == SelectSeq(db_po_line_items, LAMBDA item : item.processed_po_id = n)
HasUnreadablePrice(line) == line.pk \in {"absent", "bad"}

\* C25: a batch with a line whose price is missing or is a str that is no
\* number does not abort the request: storing the line item of a result never
\* fails, and a request that got as far as storing them and was not failed by
\* the database or the file system answers with success and has one POLineItem
\* per result.
C25_UnreadablePriceDoesNotAbort ==
    [][(/\ \E i \in DOMAIN extracted_data : HasUnreadablePrice(extracted_data[i])
        /\ pc = "flushed"
        /\ Len(session.items) < Len(results))
       => pc' # "failed"]_vars

\* C28: process_purchase_order persists atomically: a request that does not
\* end in success leaves neither a ProcessedPO nor a POLineItem in the
\* database, and one that does leaves its ProcessedPO and exactly one
\* POLineItem per comparison result.
C28_PersistsAllOrNothing ==
    pc = "responded" =>
        IF response.success
        THEN /\ \E po \in db_processed_pos : po.id = po_id_seq
             /\ Cardinality(db_processed_pos) = 1
             /\ Len(LineItemsOf(po_id_seq)) = Len(response.comparison_results)
             /\ Len(db_po_line_items) = Len(response.comparison_results)
        ELSE /\ db_processed_pos = {}
             /\ db_po_line_items = <<>>

\* The price books and processed POs of user u, and the rows of all tables
\* that belong to neither: price items go with their price book, line items
\* with their PO.
BooksOf(u, price_books) == { b.id : b \in { x \in price_books : x.user_id = u } }
PosOf(u, po_rows) == { po.id : po \in { x \in po_rows : x.user_id = u } }
RowsOfOthers(own_books, own_pos, user_rows, book_rows, item_rows, po_rows, line_rows) ==
    [users |-> user_rows,
     price_books |-> { b \in book_rows : b.id \notin own_books },
     price_items |-> [b \in DOMAIN item_rows \ own_books |-> item_rows[b]],
     processed_pos |-> { po \in po_rows : po.id \notin own_pos },
     po_line_items |-> SelectSeq(line_rows, LAMBDA item : item.processed_po_id \notin own_pos)]

\* C29: whatever requests came before, a list request answers exactly the
\* price books of the user who sent it; a delete or process-po request that
\* names a price book of another user, or no price book, is answered 403 or
\* 404 and changes no row of any table; one that names a price book of the
\* sender changes no row of another user, and prices a purchase order from the
\* items of that price book only.
C29_TenantIsolation ==
    [][LET u == request'.user
           b == request'.target
       IN  /\ request'.handler = "list" =>
                 /\ response'.price_books = BooksOf(u, db_price_books)
                 /\ UNCHANGED db_vars
           /\ request'.handler \in {"delete", "process-po"} =>
                 IF b \in BooksOf(u, db_price_books)
                 THEN /\ LET own_books == BooksOf(u, db_price_books)
                             own_pos == PosOf(u, db_processed_pos) \cup PosOf(u, db_processed_pos')
                         IN  RowsOfOthers(own_books, own_pos, db_users', db_price_books',
                                          db_price_items', db_processed_pos', db_po_line_items')
                             = RowsOfOthers(own_books, own_pos, db_users, db_price_books,
                                            db_price_items, db_processed_pos, db_po_line_items)
                      /\ \A i \in DOMAIN response'.comparison_results :
                             LET r == response'.comparison_results[i]
                             IN  r.book_price # None =>
                                     \E j \in DOMAIN db_price_items[b] :
                                         db_price_items[b][j].price = r.book_price[1]
                 ELSE /\ response'.status \in {403, 404}
                      /\ UNCHANGED db_vars]_vars

\* A request for the price book of another user has been turned down, after
\* purchase orders were processed for both owners.
C29_ForeignBookRejected ==
    /\ request.handler \in {"delete", "process-po"}
    /\ response.status \in {403, 404}
    /\ \E b \in db_price_books : b.id = request.target /\ b.user_id # request.user
    /\ \E po \in db_processed_pos : po.user_id = request.user
    /\ \E po \in db_processed_pos : po.user_id # request.user

Admins(users) == { user.id : user \in { x \in users : x.is_admin } }

\* C30: a toggle_admin or delete_user request leaves the row of the user who
\* sent it as it is, and changes nothing at all when that user is no admin;
\* no request takes the last admin away.
C30_RequesterUntouched ==
    [][/\ request'.handler \in {"toggle-admin", "delete-user"} =>
             /\ \E user \in db_users : user.id = request'.user /\ user \in db_users'
             /\ request'.user \notin Admins(db_users) => UNCHANGED db_vars
       /\ Admins(db_users) # {} => Admins(db_users') # {}]_vars

\* An admin has taken the admin flag from the only other admin.
C30_OneAdminLeft ==
    /\ request.handler = "toggle-admin"
    /\ response.success
    /\ \E user \in db_users : user.id = request.target_user /\ ~user.is_admin
    /\ Admins(db_users) = {request.user}

====
